---- MODULE Spec2Model ----
(***************************************************************************)
(* Model of the screenplay line classifier and scene assembler of          *)
(* src/screenplay_parser.py (ElementClassifier, ScreenplayParser) and      *)
(* src/utils/pattern_enhancer.py (EnhancedScreenplayPatterns).             *)
(*                                                                         *)
(* Lines are TLA+ strings.  The regular expressions of the source are      *)
(* written as expression trees (R_lit, R_set, R_cat, R_alt, R_rep, ...)    *)
(* and evaluated by the matcher Ends, so that every predicate of the       *)
(* source is computed from the text of the line as the source computes it. *)
(***************************************************************************)
EXTENDS Integers, Sequences, FiniteSets, TLC

(***************************************************************************)
(* Strings: the str methods the source uses.                               *)
(***************************************************************************)
UPPERS == "ABCDEFGHIJKLMNOPQRSTUVWXYZ"
LOWERS == "abcdefghijklmnopqrstuvwxyz"
DIGITS == "0123456789"

Chars(str) == {SubSeq(str, idx, idx) : idx \in 1..Len(str)}

AZ == Chars(UPPERS)
az == Chars(LOWERS)
D09 == Chars(DIGITS)
WordCh == AZ \cup az \cup D09 \cup {"_"}
SpaceCh == {" ", "\t"}

ToLower == [c \in AZ |-> LET idx == CHOOSE k \in 1..26 : SubSeq(UPPERS, k, k) = c
                         IN SubSeq(LOWERS, idx, idx)]
ToUpper == [c \in az |-> LET idx == CHOOSE k \in 1..26 : SubSeq(LOWERS, k, k) = c
                         IN SubSeq(UPPERS, idx, idx)]

LowCh(c) == IF c \in AZ THEN ToLower[c] ELSE c
UpCh(c) == IF c \in az THEN ToUpper[c] ELSE c

CharAt(s, idx) == SubSeq(s, idx, idx)

RECURSIVE lower(_)
lower(s) == IF s = "" THEN "" ELSE LowCh(Head(s)) \o lower(Tail(s))

RECURSIVE upper(_)
upper(s) == IF s = "" THEN "" ELSE UpCh(Head(s)) \o upper(Tail(s))

\* str.isupper(): at least one cased character and no lower-case one
isupper(s) == /\ \E idx \in 1..Len(s) : CharAt(s, idx) \in AZ
              /\ \A idx \in 1..Len(s) : CharAt(s, idx) \notin az

\* number of leading white-space characters: len(line) - len(line.lstrip())
RECURSIVE leading_spaces_of(_)
leading_spaces_of(s) ==
    IF s # "" /\ Head(s) \in SpaceCh THEN 1 + leading_spaces_of(Tail(s)) ELSE 0

RECURSIVE lstrip(_)
lstrip(s) == IF s # "" /\ Head(s) \in SpaceCh THEN lstrip(Tail(s)) ELSE s

RECURSIVE rstrip(_)
rstrip(s) == IF s # "" /\ CharAt(s, Len(s)) \in SpaceCh
             THEN rstrip(SubSeq(s, 1, Len(s) - 1)) ELSE s

strip(s) == rstrip(lstrip(s))

startswith(s, p) == Len(p) <= Len(s) /\ SubSeq(s, 1, Len(p)) = p
endswith(s, p) == Len(p) <= Len(s) /\ SubSeq(s, Len(s) - Len(p) + 1, Len(s)) = p

\* p in s
contains(s, p) == \E idx \in 1..(Len(s) - Len(p) + 1) : SubSeq(s, idx, idx + Len(p) - 1) = p

RECURSIVE spaces(_)
spaces(n) == IF n <= 0 THEN "" ELSE " " \o spaces(n - 1)

Max(a, b) == IF a >= b THEN a ELSE b

(***************************************************************************)
(* Regular expressions (module re).                                        *)
(***************************************************************************)
R_lit(str) == [t |-> "lit", s |-> str]
R_set(S) == [t |-> "set", c |-> S]
R_nset(S) == [t |-> "nset", c |-> S]
R_any == [t |-> "any"]
R_cat(rs) == [t |-> "cat", rs |-> rs]
R_alt(rs) == [t |-> "alt", rs |-> rs]
\* r{m,n}; n = -1 is "no upper limit"
R_rep(r, m, n) == [t |-> "rep", r |-> r, m |-> m, n |-> n]
R_opt(r) == R_rep(r, 0, 1)
R_star(r) == R_rep(r, 0, -1)
R_plus(r) == R_rep(r, 1, -1)
R_bol == [t |-> "bol"]
R_eol == [t |-> "eol"]
R_wb == [t |-> "wb"]
\* (?!r)
R_nla(r) == [t |-> "nla", r |-> r]
\* (w1|w2|...) for literal words
R_words(ws) == R_alt([idx \in 1..Len(ws) |-> R_lit(ws[idx])])

R_s == R_set(SpaceCh)
R_w == R_set(WordCh)
R_d == R_set(D09)

IsWordAt(s, idx) == idx >= 1 /\ idx <= Len(s) /\ CharAt(s, idx) \in WordCh

\* c is in the class S (under re.IGNORECASE: in either case)
InClass(c, S, ic) == c \in S \/ (ic /\ (LowCh(c) \in S \/ UpCh(c) \in S))

RECURSIVE Ends(_, _, _, _)
RECURSIVE CatEnds(_, _, _, _, _)
RECURSIVE RepEnds(_, _, _, _, _, _)

\* the positions j such that r matches s[idx .. j-1]
Ends(r, s, idx, ic) ==
    CASE r.t = "lit" ->
           LET n == Len(r.s)
               sub == SubSeq(s, idx, idx + n - 1)
           IN IF idx + n - 1 <= Len(s) /\
                 (sub = r.s \/ (ic /\ lower(sub) = lower(r.s)))
              THEN {idx + n} ELSE {}
      [] r.t = "set" ->
           IF idx <= Len(s) /\ InClass(CharAt(s, idx), r.c, ic) THEN {idx + 1} ELSE {}
      [] r.t = "nset" ->
           IF idx <= Len(s) /\ ~InClass(CharAt(s, idx), r.c, ic) THEN {idx + 1} ELSE {}
      [] r.t = "any" -> IF idx <= Len(s) THEN {idx + 1} ELSE {}
      [] r.t = "bol" -> IF idx = 1 THEN {idx} ELSE {}
      [] r.t = "eol" -> IF idx = Len(s) + 1 THEN {idx} ELSE {}
      [] r.t = "wb" -> IF IsWordAt(s, idx - 1) # IsWordAt(s, idx) THEN {idx} ELSE {}
      [] r.t = "nla" -> IF Ends(r.r, s, idx, ic) = {} THEN {idx} ELSE {}
      [] r.t = "cat" -> CatEnds(r.rs, 1, s, {idx}, ic)
      [] r.t = "alt" -> UNION {Ends(r.rs[k], s, idx, ic) : k \in 1..Len(r.rs)}
      [] r.t = "rep" ->
           RepEnds(r.r, s, {idx}, 0,
                   [m |-> r.m, n |-> IF r.n < 0 THEN r.m + Len(s) + 1 ELSE r.n], ic)

CatEnds(rs, k, s, P, ic) ==
    IF k > Len(rs) \/ P = {} THEN P
    ELSE CatEnds(rs, k + 1, s, UNION {Ends(rs[k], s, j, ic) : j \in P}, ic)

RepEnds(r, s, P, k, mn, ic) ==
    IF P = {} \/ k > mn.n THEN {}
    ELSE (IF k >= mn.m THEN P ELSE {}) \cup
         (IF k = mn.n THEN {}
          ELSE RepEnds(r, s, UNION {Ends(r, s, j, ic) \ (IF k >= mn.m THEN {j} ELSE {}) : j \in P},
                       k + 1, mn, ic))

\* re.match(r, s): a match at the start of s
re_match(r, s, ic) == Ends(r, s, 1, ic) # {}
\* re.search(r, s): a match anywhere in s
re_search(r, s, ic) == \E idx \in 1..(Len(s) + 1) : Ends(r, s, idx, ic) # {}

\* the first (leftmost) match of r in s at or after position from, taken to
\* its longest end: [b |-> start, e |-> position after the match]; b = 0 if none
FirstMatch(r, s, from, ic) ==
    IF \E idx \in from..(Len(s) + 1) : Ends(r, s, idx, ic) # {}
    THEN LET b == CHOOSE idx \in from..(Len(s) + 1) :
                     /\ Ends(r, s, idx, ic) # {}
                     /\ \A k \in from..(idx - 1) : Ends(r, s, k, ic) = {}
             E == Ends(r, s, b, ic)
         IN [b |-> b, e |-> CHOOSE j \in E : \A k \in E : k <= j]
    ELSE [b |-> 0, e |-> 0]

\* fix_repeated_chars: the distinct characters of the match, in order
RECURSIVE unique_chars(_, _)
unique_chars(m, seen) ==
    IF m = "" THEN ""
    ELSE IF Head(m) \in seen THEN unique_chars(Tail(m), seen)
         ELSE Head(m) \o unique_chars(Tail(m), seen \cup {Head(m)})

RECURSIVE PrefixIn(_, _)
PrefixIn(m, S) == IF m # "" /\ Head(m) \in S THEN Head(m) \o PrefixIn(Tail(m), S) ELSE ""

\* the replacement text of one match m
Replacement(repl, m) ==
    CASE repl.k = "const" -> repl.v
      \* fix_repeated_chars
      [] repl.k = "unique" -> unique_chars(m, {})
      \* r'\1' for ([A-Z])\1{3,}
      [] repl.k = "first" -> Head(m)
      \* r'(\1)' for \(\(([^)]+)\)\)
      [] repl.k = "unparen" -> SubSeq(m, 2, Len(m) - 1)
      \* r'\1 (\2)' for ([A-Z]+)\s*\(\(([A-Z\s']+)\)\)
      [] repl.k = "name_ext" ->
           LET g1 == PrefixIn(m, AZ)
               rest == lstrip(SubSeq(m, Len(g1) + 1, Len(m)))
           IN g1 \o " " \o SubSeq(rest, 2, Len(rest) - 1)

Const(v) == [k |-> "const", v |-> v]

\* re.sub(r, repl, s): every non-overlapping match, left to right, replaced
RECURSIVE sub_from(_, _, _, _, _)
sub_from(r, repl, s, from, ic) ==
    LET m == FirstMatch(r, s, from, ic)
    IN IF m.b = 0 THEN SubSeq(s, from, Len(s))
       ELSE IF m.e = m.b
            THEN \* empty match: nothing replaced, move on by one character
                 IF m.b > Len(s) THEN SubSeq(s, from, Len(s))
                 ELSE SubSeq(s, from, m.b) \o sub_from(r, repl, s, m.b + 1, ic)
            ELSE SubSeq(s, from, m.b - 1) \o Replacement(repl, SubSeq(s, m.b, m.e - 1))
                 \o sub_from(r, repl, s, m.e, ic)

re_sub(r, repl, s, ic) == sub_from(r, repl, s, 1, ic)

(***************************************************************************)
(* ScreenplayParser._is_page_number and _clean_extraction_artifacts.       *)
(* Lines hold no newline (a page's text is split on newlines), so          *)
(* re.MULTILINE ^ and $ are the ends of the line.                          *)
(***************************************************************************)
\* X+ for a letter X
P1(c) == R_plus(R_lit(c))
HySp == R_star(R_set({"-", " ", "\t"}))
Quotes == {"'", "\""}

\* the six page-number formats, in the order of page_patterns
page_patterns ==
    << R_cat(<<R_bol, R_rep(R_d, 1, 4), R_rep(R_lit("."), 0, 2), R_eol>>),
       R_cat(<<R_bol, R_rep(R_d, 1, 4), R_star(R_s), R_eol>>),
       R_cat(<<R_bol, R_lit("Page"), R_plus(R_s), R_plus(R_d)>>),
       R_cat(<<R_bol, R_rep(R_d, 1, 4), R_lit("/"), R_rep(R_d, 1, 4), R_eol>>),
       R_cat(<<R_bol, R_lit("-"), R_star(R_s), R_plus(R_d), R_star(R_s), R_lit("-"), R_eol>>),
       R_cat(<<R_bol, R_lit("("), R_plus(R_d), R_lit(")"), R_eol>>) >>

is_page_number(line) ==
    LET stripped == strip(line)
    IN IF stripped = "" THEN FALSE
       ELSE \E k \in 1..Len(page_patterns) : re_match(page_patterns[k], stripped, TRUE)

\* character_fixes, in dictionary order
character_fixes ==
    << [p |-> R_cat(<<P1("H"), P1("A"), P1("N"), P1("A"), P1("H")>>), r |-> "HANNAH"],
       [p |-> R_cat(<<P1("D"), P1("E"), P1("E"), HySp, P1("F"), P1("I"), HySp,
                      P1("D"), P1("O"), P1("M")>>), r |-> "DE-FI DOM"],
       [p |-> R_cat(<<P1("D"), P1("E"), HySp, P1("F"), P1("I"), HySp,
                      P1("D"), P1("O"), P1("M")>>), r |-> "DE-FI DOM"],
       [p |-> R_cat(<<P1("P"), P1("A"), P1("T"), P1("R"), P1("I"), P1("C"), P1("K")>>),
        r |-> "PATRICK"],
       [p |-> R_cat(<<P1("P"), P1("A"), P1("T"), P1("R"), P1("I"), P1("C"),
                      R_plus(R_set({"R", "K"}))>>), r |-> "PATRICK"],
       [p |-> R_cat(<<P1("R"), P1("O"), P1("G"), P1("E"), P1("R")>>), r |-> "ROGER"],
       [p |-> R_cat(<<P1("B"), P1("O"), P1("U"), P1("N"), P1("C"), P1("E"), P1("R")>>),
        r |-> "BOUNCER"],
       [p |-> R_cat(<<P1("K"), P1("E"), P1("V"), P1("I"), P1("N")>>), r |-> "KEVIN"],
       [p |-> R_cat(<<P1("B"), P1("R"), P1("I"), P1("A"), P1("N")>>), r |-> "BRIAN"],
       [p |-> R_cat(<<P1("S"), P1("A"), P1("M")>>), r |-> "SAM"] >>

\* re.sub applied for each entry of subs in turn, from entry k on
RECURSIVE apply_subs(_, _, _)
apply_subs(text, subs, k) ==
    IF k > Len(subs) THEN text
    ELSE LET t == re_sub(subs[k].p, subs[k].r, text, subs[k].ic)
         IN \* no pattern matches in the empty string
            IF t = "" THEN t ELSE apply_subs(t, subs, k + 1)

character_fix_subs ==
    [k \in 1..Len(character_fixes) |->
        [p |-> character_fixes[k].p, r |-> Const(character_fixes[k].r), ic |-> TRUE]]

\* ([A-Z])\1{n,}: n+1 or more copies of one upper-case letter
RunOf(n) == R_alt([k \in 1..26 |-> R_rep(R_lit(SubSeq(UPPERS, k, k)), n + 1, -1)])

\* the substitutions that follow the character fixes, in source order
artifact_subs ==
    << \* general repeated character fixes
       [p |-> R_cat(<<RunOf(2), RunOf(2), RunOf(2)>>), r |-> [k |-> "unique"], ic |-> FALSE],
       [p |-> R_cat(<<RunOf(2), RunOf(2)>>), r |-> [k |-> "unique"], ic |-> FALSE],
       [p |-> RunOf(3), r |-> [k |-> "first"], ic |-> FALSE],
       \* CONT'D corruption
       [p |-> R_cat(<<P1("C"), P1("O"), P1("N"), P1("T"), R_star(R_set(Quotes)), P1("D")>>),
        r |-> Const("CONT'D"), ic |-> TRUE],
       [p |-> R_cat(<<R_lit("CONT"), R_rep(R_set(Quotes), 2, -1), R_lit("D"),
                      R_opt(R_lit("D"))>>), r |-> Const("CONT'D"), ic |-> TRUE],
       [p |-> R_cat(<<R_lit("CONT"), R_star(R_set(Quotes)), R_lit("DD")>>),
        r |-> Const("CONT'D"), ic |-> TRUE],
       \* doubled parentheses, doubled quotes
       [p |-> R_cat(<<R_lit("(("), R_plus(R_nset({")"})), R_lit("))")>>),
        r |-> [k |-> "unparen"], ic |-> FALSE],
       [p |-> R_lit("''"), r |-> Const("'"), ic |-> FALSE],
       \* character names with extensions
       [p |-> R_cat(<<R_plus(R_set(AZ)), R_star(R_s), R_lit("(("),
                      R_plus(R_set(AZ \cup SpaceCh \cup {"'"})), R_lit("))")>>),
        r |-> [k |-> "name_ext"], ic |-> FALSE] >>

\* removal of page numbers; only the "Page N" pattern has re.IGNORECASE
page_number_subs ==
    [k \in 1..Len(page_patterns) |-> [p |-> page_patterns[k], r |-> Const(""), ic |-> (k = 3)]]

clean_extraction_artifacts(text) ==
    IF text = "" THEN text
    ELSE apply_subs(text, character_fix_subs \o artifact_subs \o page_number_subs, 1)

(***************************************************************************)
(* EnhancedScreenplayPatterns (src/utils/pattern_enhancer.py).             *)
(***************************************************************************)
\* (w1s?|w2s?|...): each word with an optional final s
R_words_s(ws) == R_alt([idx \in 1..Len(ws) |-> R_cat(<<R_lit(ws[idx]), R_opt(R_lit("s"))>>)])

\* (CONT'?D|MORE|[C]{1,3}[O]{1,3}[N]{1,3}[T]{1,3}['']*D{1,2})
contd_marker ==
    R_alt(<<R_cat(<<R_lit("CONT"), R_opt(R_lit("'")), R_lit("D")>>),
            R_lit("MORE"),
            R_cat(<<R_rep(R_lit("C"), 1, 3), R_rep(R_lit("O"), 1, 3), R_rep(R_lit("N"), 1, 3),
                    R_rep(R_lit("T"), 1, 3), R_star(R_lit("'")), R_rep(R_lit("D"), 1, 2)>>)>>)

\* ^[A-Z][A-Z\s\-\.#0-9]+\s*\((CONT'?D|MORE|...)\)$, with re.IGNORECASE
contd_pattern ==
    R_cat(<<R_bol, R_set(AZ), R_plus(R_set(AZ \cup SpaceCh \cup {"-", ".", "#"} \cup D09)),
            R_star(R_s), R_lit("("), contd_marker, R_lit(")"), R_eol>>)

scene_patterns ==
    << R_cat(<<R_bol, R_words(<<"INT.", "EXT.", "EST.", "INT/EXT.">>)>>),
       R_cat(<<R_bol, R_words(<<"INTERIOR", "EXTERIOR">>)>>),
       R_cat(<<R_lit("- "), R_words(<<"DAY", "NIGHT", "DAWN", "DUSK", "MORNING", "AFTERNOON",
                                      "EVENING", "LATER", "CONTINUOUS">>)>>) >>

character_exclusions ==
    { "WINDOW", "DOOR", "TABLE", "CHAIR", "BAR", "HALLWAY", "ROOM",
      "KITCHEN", "BATHROOM", "OFFICE", "CAR", "PHONE", "COMPUTER",
      "BUILDING", "HOUSE", "STREET", "PARK", "STORE", "RESTAURANT",
      "WORK DESK", "CLOTHING RACK", "WALL MIRROR", "DANCE FLOOR",
      "ANGLE ON", "CLOSE ON", "PHONE CAM POV", "END PHONE CAM POV",
      "WIDE SHOT", "CLOSE UP", "MEDIUM SHOT", "POV", "INSERT",
      "FADE IN", "FADE OUT", "CUT TO", "DISSOLVE TO", "SMASH CUT",
      "THE END", "CONTINUED", "MORE", "BEAT", "FADE TO",
      "SUPER TITLE", "TITLE CARD", "SUPER", "GRAPHICS", "TEXT ON SCREEN",
      "BEGIN MONTAGE", "END MONTAGE", "MONTAGE", "SEQUENCE",
      "LATER", "MOMENTS LATER", "CONTINUOUS", "SAME TIME",
      "MEANWHILE", "ELSEWHERE", "NEXT DAY", "THAT NIGHT",
      "PRE-LAP", "MUSIC", "SOUND", "VOICE OVER", "NARRATOR",
      "CRYPTO ART", "LED SCREEN", "DIGITAL WALLET", "COLD WALLET",
      "VIP BOOTHS", "BODYGUARDS", "CHAMPAGNE", "BOMBER JACKET" }

transition_patterns ==
    << R_cat(<<R_bol, R_words(<<"FADE IN", "FADE OUT", "CUT TO", "DISSOLVE TO", "SMASH CUT TO">>)>>),
       R_cat(<<R_bol, R_words(<<"MATCH CUT", "JUMP CUT", "CROSS CUT">>)>>) >>

\* the line is upper-cased before the tests, so "line == line.upper()" is
\* true of every line
is_scene_heading(line0) ==
    LET line == upper(strip(line0))
    IN IF ~(line = upper(line) /\ 10 <= Len(line) /\ Len(line) <= 100) THEN FALSE
       ELSE \E k \in 1..Len(scene_patterns) : re_search(scene_patterns[k], line, FALSE)

\* re.sub(r'\s*\([^)]+\)', '', text).strip()
strip_parentheticals(text) ==
    strip(re_sub(R_cat(<<R_star(R_s), R_lit("("), R_plus(R_nset({")"})), R_lit(")")>>),
                 Const(""), text, FALSE))

isdigit(s) == s # "" /\ \A idx \in 1..Len(s) : CharAt(s, idx) \in D09

\* EnhancedScreenplayPatterns.is_character_name
patterns_is_character_name(line0) ==
    LET line == strip(line0)
        clean_line == strip_parentheticals(line)
    IN IF re_search(contd_pattern, line, TRUE) THEN TRUE
       ELSE IF ~(line = upper(line) /\ 2 <= Len(line) /\ Len(line) <= 30) THEN FALSE
       ELSE IF clean_line \in character_exclusions THEN FALSE
       ELSE IF is_scene_heading(line) THEN FALSE
       ELSE IF \E k \in 1..Len(transition_patterns) :
                   re_search(transition_patterns[k], line, FALSE) THEN FALSE
       ELSE IF Len(clean_line) <= 2 \/ isdigit(clean_line) THEN FALSE
       ELSE IF ~re_search(R_set(AZ), clean_line, FALSE) THEN FALSE
       ELSE TRUE

(***************************************************************************)
(* ElementClassifier: the text predicates.  Confidence weights are in      *)
(* hundredths (0.85 is 85).                                                *)
(***************************************************************************)
pre_scene_patterns ==
    LET P(lit) == R_cat(<<R_bol, R_lit(lit), R_star(R_any)>>)
        PC(lit) == R_cat(<<R_bol, R_lit(lit), R_opt(R_lit(":")), R_star(R_any)>>)
    IN << P("OVER BLACK"), PC("FADE IN"), P("BLACK SCREEN"), PC("TITLE CARD"), PC("SUPER"),
          PC("SUPER TITLE"), PC("PRELAP"), PC("PRE-LAP"), P("INSERT"), P("TEASER"),
          P("COLD OPEN"), P("OPENING TITLE"), P("MAIN TITLE"), P("END TITLE"), P("CREDITS"),
          R_cat(<<R_bol, R_lit("VOICE"), R_opt(R_any), R_lit("OVER"), R_star(R_any)>>),
          R_cat(<<R_bol, R_lit("V"), R_opt(R_lit(".")), R_lit("O"), R_opt(R_lit(".")),
                  R_star(R_any)>>) >>

is_pre_scene_element(text) ==
    \E k \in 1..Len(pre_scene_patterns) : re_match(pre_scene_patterns[k], upper(text), FALSE)

transitions ==
    << "FADE OUT", "FADE TO", "CUT TO:", "DISSOLVE TO:",
       "SMASH CUT TO:", "MATCH CUT:", "JUMP CUT:",
       "FADE TO BLACK", "FADE TO WHITE", "THE END",
       "BEGIN MONTAGE", "END MONTAGE", "START MONTAGE",
       "MONTAGE:", "SERIES OF SHOTS:", "SEQUENCE:" >>

is_transition(text) == \E k \in 1..Len(transitions) : startswith(upper(text), transitions[k])

is_scene_element(text) ==
    \E e \in {"INT.", "EXT.", "INT/", "EXT/", "I/E."} : startswith(upper(text), e)

\* hasattr(self.patterns, 'CHARACTER_EXCLUSIONS') is false (the attribute of
\* EnhancedScreenplayPatterns is character_exclusions), so the list is empty
exclusions == {}

\* ^[A-Z][A-Z\s\-\.\']+(\s*\([A-Z\.\s\']+\))?$
name_shape ==
    R_cat(<<R_bol, R_set(AZ), R_plus(R_set(AZ \cup SpaceCh \cup {"-", ".", "'"})),
            R_opt(R_cat(<<R_star(R_s), R_lit("("),
                          R_plus(R_set(AZ \cup SpaceCh \cup {".", "'"})), R_lit(")")>>)),
            R_eol>>)

matches_name_shape(text) == re_match(name_shape, text, FALSE)

is_continuation_character_name(text) == re_search(contd_pattern, text, TRUE)

definitive_patterns ==
    << R_cat(<<R_bol, R_words(<<"INT.", "EXT.", "FADE", "CUT TO:", "DISSOLVE">>)>>),
       R_cat(<<R_bol, R_words(<<"He", "She", "It", "They">>), R_plus(R_s),
               R_words_s(<<"walk", "run", "move", "enter", "exit">>)>>),
       R_cat(<<R_wb, R_words(<<"CAMERA", "ANGLE ON", "CLOSE ON", "WIDE SHOT">>), R_wb>>),
       R_cat(<<R_bol, R_words(<<"Meanwhile", "Suddenly", "Later", "Then">>), R_wb>>) >>

contains_definitive_action_patterns(text) ==
    \E k \in 1..Len(definitive_patterns) : re_search(definitive_patterns[k], text, TRUE)

basic_action_patterns ==
    << R_cat(<<R_wb, R_rep(R_set(az), 2, -1), R_plus(R_s),
               R_words_s(<<"pull", "grab", "open", "close", "walk", "move", "turn", "look",
                           "put", "drie", "follow", "slip", "step", "roll", "run", "hand">>),
               R_wb,
               R_nla(R_cat(<<R_plus(R_s),
                     R_alt(<<R_cat(<<R_lit("a"), R_plus(R_s),
                                     R_words(<<"dump", "break", "chance", "look", "while",
                                               "moment">>)>>),
                             R_cat(<<R_lit("a"), R_opt(R_lit("n")), R_plus(R_s)>>)>>)>>))>>),
       R_cat(<<R_bol, R_words(<<"the", "a", "an">>), R_plus(R_s), R_plus(R_w), R_plus(R_s),
               R_alt(<<R_words_s(<<"approache", "interject", "open", "close", "ring", "buzze">>),
                       R_words(<<"don't", "doesn't">>)>>), R_wb>>),
       R_cat(<<R_plus(R_set(az)), R_lit("'s"), R_plus(R_s),
               R_alt(<<R_words(<<"phone", "face", "laptop", "wallet", "clutches", "jacket">>),
                       R_words_s(<<"hand", "eye">>)>>), R_wb>>),
       R_cat(<<R_wb,
               R_alt(<<R_cat(<<R_lit("pull"), R_opt(R_lit("s")), R_lit(" out")>>),
                       R_cat(<<R_lit("put"), R_opt(R_lit("s")), R_lit(" down")>>),
                       R_cat(<<R_lit("pick"), R_opt(R_lit("s")), R_lit(" up")>>),
                       R_cat(<<R_lit("turn"), R_opt(R_lit("s")), R_lit(" around")>>),
                       R_cat(<<R_lit("walk"), R_opt(R_lit("s")), R_lit(" to")>>),
                       R_cat(<<R_lit("move"), R_opt(R_lit("s")), R_lit(" to")>>),
                       R_cat(<<R_lit("slip"), R_opt(R_lit("s")), R_lit(" out")>>),
                       R_cat(<<R_lit("step"), R_opt(R_lit("s")), R_lit(" out")>>),
                       R_words_s(<<"grab", "clutche">>)>>), R_wb>>),
       R_cat(<<R_lit("("), R_plus(R_d), R_opt(R_lit("s")), R_lit(")"), R_opt(R_lit(",")),
               R_plus(R_s), R_set(az)>>),
       R_alt(<<R_cat(<<R_wb, R_lit("surrounded by"), R_wb>>),
               R_cat(<<R_wb, R_lit("frame a"), R_wb>>),
               R_cat(<<R_wb, R_lit("hang"), R_wb>>),
               R_cat(<<R_wb, R_lit("sparkle"), R_opt(R_lit("s")), R_lit(" in"), R_wb>>),
               R_cat(<<R_wb, R_lit("approaches"), R_wb>>)>>),
       R_cat(<<R_wb, R_words(<<"she", "he", "they">>), R_plus(R_s),
               R_words_s(<<"slip", "grab", "step", "roll", "run", "head", "hand">>), R_wb>>),
       R_cat(<<R_wb, R_words(<<"phone", "wallet", "device">>), R_plus(R_s),
               R_words_s(<<"buzze", "ring", "open", "display">>), R_wb>>),
       R_cat(<<R_wb, R_words(<<"out of his", "into his", "around her", "to her", "from the">>),
               R_wb>>) >>

is_basic_action_line(text) ==
    LET text_lower == strip(lower(text))
    IN \E k \in 1..Len(basic_action_patterns) :
           re_search(basic_action_patterns[k], text_lower, FALSE)

motion_verbs ==
    <<"walk", "stand", "sit", "move", "turn", "look", "take", "goe", "run", "enter", "exit",
      "crosse", "approache", "reache", "grab", "open", "close", "stare", "watche", "wait",
      "stop", "start", "continue", "follow", "lead", "pushe", "pull">>

\* the eleven weighted signals of _contains_action_indicators
scene_headers_pattern ==
    R_cat(<<R_bol, R_alt(<<R_words(<<"INT.", "EXT.">>),
                           R_cat(<<R_lit("INT"), R_s>>), R_cat(<<R_lit("EXT"), R_s>>),
                           R_words(<<"FADE IN:", "FADE OUT:", "FADE TO:", "CUT TO:",
                                     "DISSOLVE TO:", "SMASH CUT:", "MATCH CUT:", "JUMP CUT:",
                                     "CLOSE ON", "ANGLE ON", "INSERT", "MONTAGE", "FLASHBACK",
                                     "FLASH FORWARD", "INTERCUT", "CONTINUOUS", "LATER",
                                     "MOMENTS LATER">>)>>)>>)

third_person_pattern ==
    R_cat(<<R_bol,
            R_alt(<<R_words(<<"He", "She", "It", "They", "His", "Her", "Its", "Their">>),
                    R_cat(<<R_lit("The"), R_plus(R_s), R_plus(R_w)>>),
                    R_cat(<<R_lit("A"), R_plus(R_s), R_plus(R_w)>>),
                    R_cat(<<R_lit("An"), R_plus(R_s), R_plus(R_w)>>)>>),
            R_plus(R_s), R_words_s(motion_verbs)>>)

progressive_pattern ==
    R_cat(<<R_wb, R_words(<<"is", "are", "was", "were">>), R_plus(R_s), R_plus(R_w),
            R_lit("ing"), R_wb>>)

camera_pattern ==
    R_cat(<<R_wb, R_words(<<"CAMERA", "CRANE", "PAN", "ZOOM", "TRACK", "DOLLY", "PULL BACK",
                            "PUSH IN", "REVEAL", "FOCUS", "FRAME", "SHOT", "ANGLE", "POV",
                            "P.O.V.", "VIEW", "WIDER", "CLOSER", "TIGHT ON", "MOVING",
                            "HANDHELD", "STEADICAM", "AERIAL", "ESTABLISHING">>), R_wb>>)

parenthetical_pattern ==
    R_cat(<<R_lit("("),
            R_alt(<<R_words(<<"continuing", "CONT'D", "O.S.", "V.O.", "beat", "pause", "then">>),
                    R_cat(<<R_lit("to"), R_plus(R_s), R_set(AZ), R_plus(R_set(az))>>),
                    R_cat(<<R_lit("into"), R_plus(R_s), R_lit("phone")>>),
                    R_cat(<<R_lit("on"), R_plus(R_s), R_lit("phone")>>),
                    R_words_s(<<"whisper", "shout", "yell", "scream">>),
                    R_words(<<"quietly", "loudly", "sarcastically">>),
                    R_cat(<<R_plus(R_set(az)), R_lit("ing")>>),
                    R_cat(<<R_plus(R_set(az)), R_lit("ly")>>)>>),
            R_lit(")")>>)

transitions_pattern ==
    R_cat(<<R_bol, R_words(<<"Meanwhile", "Suddenly", "Now", "Then", "Later", "Finally",
                             "Just then", "At that moment", "Behind", "Above", "Below",
                             "Inside", "Outside", "Across", "Through", "Beyond", "Near",
                             "From", "During", "Before", "After", "As", "While">>), R_wb>>)

descriptive_pattern ==
    R_cat(<<R_bol, R_words(<<"The", "A", "An">>), R_plus(R_s), R_plus(R_w), R_plus(R_s),
            R_words(<<"is", "are", "stands", "sits", "lies", "hangs", "rests", "covers",
                      "fills", "enters", "appears", "emerges">>)>>)

\* \b[A-Z]{2,}(?:\s+[A-Z]{2,})*\b(?![\'\"]), without re.IGNORECASE
sound_effects_pattern ==
    R_cat(<<R_wb, R_rep(R_set(AZ), 2, -1),
            R_star(R_cat(<<R_plus(R_s), R_rep(R_set(AZ), 2, -1)>>)), R_wb,
            R_nla(R_set(Quotes))>>)

celebrity_actions ==
    << "dan bilzerian jet skis", "jeff bezos emerges", "elon musk smokes",
       "dan bilzerian", "jeff bezos", "elon musk", "joe rogan podcast",
       "emerges from his", "jet skis", "smokes weed on" >>

atmosphere_pattern ==
    R_cat(<<R_bol, R_words(<<"It's", "It is", "There's", "There is", "There are">>),
            R_plus(R_s)>>)

simultaneous_pattern ==
    R_cat(<<R_wb, R_words(<<"as", "while", "when", "during">>), R_plus(R_s),
            R_alt(<<R_words(<<"he", "she", "they", "it">>),
                    R_cat(<<R_set(AZ), R_plus(R_set(az))>>)>>),
            R_plus(R_s), R_plus(R_w), R_opt(R_lit("s")), R_wb>>)

W(b, w) == IF b THEN w ELSE 0

action_score(text) ==
    LET text_lower == strip(lower(text))
    IN W(re_match(scene_headers_pattern, text, TRUE), 98)
       + W(re_match(third_person_pattern, text, TRUE), 94)
       + W(re_search(progressive_pattern, text, TRUE), 88)
       + W(re_search(camera_pattern, text, TRUE), 95)
       + W(re_search(parenthetical_pattern, text, TRUE), 93)
       + W(re_match(transitions_pattern, text, TRUE), 84)
       + W(re_match(descriptive_pattern, text, TRUE), 86)
       + W(re_search(sound_effects_pattern, text, FALSE) /\ ~isupper(text), 81)
       + W(\E k \in 1..Len(celebrity_actions) : contains(text_lower, celebrity_actions[k]), 95)
       + W(re_match(atmosphere_pattern, text, TRUE), 77)
       + W(re_search(simultaneous_pattern, text, TRUE), 79)

contains_action_indicators(text) ==
    IF strip(lower(text)) = "" THEN FALSE ELSE action_score(text) >= 85

strong_dialogue_breakers ==
    << "hannah walks", "hannah moves", "hannah enters", "hannah exits", "she walks",
       "he walks", "she moves", "he moves", "she enters", "he enters", "angle on", "close on",
       "wide shot", "work desk", "clothing rack", "as we push in", "we push in", "push in on",
       "pull out", "zoom in", "zoom out", "the view of", "we see", "we witness", "fade in",
       "fade out", "cut to" >>

clear_action_indicators ==
    << "hannah walks", "hannah moves", "hannah runs", "hannah sits", "hannah stands",
       "hannah enters", "hannah exits", "hannah approaches", "hannah leaves",
       "hannah picks up", "hannah puts down", "hannah grabs", "hannah throws",
       "hannah examines", "hannah studies", "hannah looks at", "hannah stares",
       "hannah opens", "hannah closes", "hannah turns", "hannah spins", "she walks",
       "he walks", "she moves", "he moves", "she runs", "he runs", "she sits", "he sits",
       "she stands", "he stands", "she enters", "he enters", "she exits", "he exits",
       "she picks", "he picks", "she grabs", "he grabs", "she examines", "he examines",
       "she looks", "he looks", "she opens", "he opens", " points to", " walks to",
       " moves to", " turns to", " looks at", " stares at", " grabs the", " picks up",
       " puts down", " throws the", " holds the", " waves to", " nods to", " gestures",
       " approaches", " enters", " exits", "billionaire", "millionaire", "trust-funder",
       "crypto billionaire", "influencer", "turned crypto", "turned into", "is a ", "was a ",
       "became a ", "the view of", "we see", "we witness", "as we push in", "over black",
       "fade in", "fade out", "cut to", "dissolve to", "begin montage", "end montage",
       "work desk", "clothing rack", "wall mirror", "phone cam pov", "end phone cam",
       "angle on", "close on", "wide shot", "tight shot", "dance floor", "it's complete",
       "it's finished", "the door", "the window", "the room", "the table", "the chair",
       "the phone", "the computer", "surrounded by", "girls protest", "proud boys",
       "storm the capitol", "world trade center", "is attacked", "is laid to rest",
       "laid to rest", "oil fields", "on fire in", "is beaten", "nuclear bomb", "ignites",
       "blinding white", "consumes the screen", "covid-19 pandemic", "hoarding toilet paper",
       "protesting masks", "refusing to get", "saying goodbye", "dying family members",
       "million deaths", "antarctic ice shelf", "collapses into", "putin shakes hands",
       "donald trump", "tiananmen square", "massacre", "hurricane katrina", "polar bear",
       "takes its last breath", "afghanistan", "women's rights march", "citizens in myanmar",
       "war in ukraine", "arab spring", "economic collapse", "amazon rainforest", "columbine",
       "school shooting", "troops in", "slaughter of", "princess diana" >>

\* ^[A-Z][A-Z\s\-\.]{3,}(?::|--|\s-\s)
location_prefix ==
    R_cat(<<R_bol, R_set(AZ), R_rep(R_set(AZ \cup SpaceCh \cup {"-", "."}), 3, -1),
            R_alt(<<R_lit(":"), R_lit("--"), R_cat(<<R_s, R_lit("-"), R_s>>)>>)>>)

\* ElementClassifier._is_clearly_action, which reads self.in_dialogue_block
is_clearly_action(text, in_dialogue_block) ==
    LET text_lower == lower(text)
    IN IF in_dialogue_block
       THEN \E k \in 1..Len(strong_dialogue_breakers) :
                contains(text_lower, strong_dialogue_breakers[k])
       ELSE IF \E k \in 1..Len(clear_action_indicators) :
                   contains(text_lower, clear_action_indicators[k]) THEN TRUE
       ELSE IF re_match(location_prefix, text, FALSE) THEN TRUE
       ELSE IF \E w \in {"montage", "sequence", "series of"} : contains(text_lower, w) THEN TRUE
       ELSE FALSE

first_person_pattern ==
    R_cat(<<R_wb, R_words(<<"I", "me", "my", "mine", "myself", "I'm", "I'll", "I'd", "I've">>),
            R_wb>>)

second_person_pattern ==
    R_cat(<<R_wb, R_words(<<"you", "your", "yours", "yourself", "you're", "you'll", "you'd",
                            "you've">>), R_wb>>)

contractions_pattern ==
    R_cat(<<R_wb, R_words(<<"can't", "won't", "don't", "didn't", "wouldn't", "couldn't",
                            "shouldn't", "isn't", "aren't", "wasn't", "weren't", "hasn't",
                            "haven't", "hadn't", "that's", "what's", "where's", "who's",
                            "it's", "he's", "she's", "we're", "they're", "I'm", "you're",
                            "I'll", "you'll", "we'll", "they'll", "I'd", "you'd", "we'd",
                            "they'd", "I've", "you've", "we've", "they've", "let's", "here's",
                            "there's">>), R_wb>>)

question_pattern ==
    R_cat(<<R_bol, R_words(<<"What", "Where", "When", "Who", "Why", "How", "Can", "Could",
                             "Would", "Should", "Will", "Do", "Does", "Did", "Are", "Is",
                             "Was", "Were", "Have", "Has", "Had", "Am">>), R_wb>>)

imperative_pattern ==
    R_cat(<<R_bol, R_words(<<"Come", "Go", "Look", "Wait", "Stop", "Listen", "Tell", "Give",
                             "Take", "Get", "Put", "Let", "Bring", "Hold", "Shut", "Move",
                             "Stay", "Keep", "Try", "Help", "Show", "Make", "Leave", "Sit",
                             "Stand", "Drop", "Open", "Close", "Turn", "Run", "Walk", "Call",
                             "Check", "Find">>), R_wb>>)

fillers_pattern ==
    R_cat(<<R_wb, R_words(<<"yeah", "yes", "no", "nope", "yep", "uh-huh", "uh", "um", "ah",
                            "oh", "hey", "well", "so", "anyway", "maybe", "just", "really",
                            "actually", "basically", "literally", "honestly", "seriously",
                            "definitely", "absolutely", "exactly", "totally", "right", "sure",
                            "fine", "okay", "OK", "alright">>), R_wb>>)

emotional_pattern ==
    R_cat(<<R_wb, R_words(<<"Jesus", "Christ", "God", "damn", "dammit", "hell", "shit", "fuck",
                            "fucking", "crap", "wow", "whoa", "holy", "geez", "gosh",
                            "bastard">>), R_wb>>)

\* (\.\.\.|--|\s-\s)
ellipsis_dash_pattern ==
    R_alt(<<R_lit("..."), R_lit("--"), R_cat(<<R_s, R_lit("-"), R_s>>)>>)

opinions_pattern ==
    R_cat(<<R_bol, R_words(<<"I think", "I know", "I believe", "I feel", "I mean", "I guess",
                             "I suppose", "I bet", "I wish", "I hope", "I want", "I need">>),
            R_wb>>)

dialogue_score(text) ==
    W(re_search(first_person_pattern, text, TRUE), 89)
    + W(re_search(second_person_pattern, text, TRUE), 84)
    + W(re_search(contractions_pattern, text, TRUE), 86)
    + W(endswith(strip(text), "?") \/ re_match(question_pattern, text, TRUE), 91)
    + W(re_match(imperative_pattern, text, TRUE), 81)
    + W(re_search(fillers_pattern, text, TRUE), 83)
    + W(re_search(emotional_pattern, text, TRUE), 85)
    + W(re_search(ellipsis_dash_pattern, text, FALSE), 76)
    + W(re_match(opinions_pattern, text, TRUE), 87)

(***************************************************************************)
(* ScreenplayParser._wrap_text: textwrap.wrap(text, width,                 *)
(* break_long_words=False), as TextWrapper computes it (word separation    *)
(* with break_on_hyphens, drop_whitespace, greedy line filling).           *)
(***************************************************************************)
IsLetterAt(s, idx) == idx >= 1 /\ idx <= Len(s) /\ CharAt(s, idx) \in (AZ \cup az \cup {"_"})
IsSpaceAt(s, idx) == idx >= 1 /\ idx <= Len(s) /\ CharAt(s, idx) \in SpaceCh
IsWordPunctAt(s, idx) ==
    idx >= 1 /\ idx <= Len(s) /\ CharAt(s, idx) \in (WordCh \cup {"!", "\"", "'", "&", ".", ",", "?"})

RECURSIVE RunEnd(_, _, _)
\* the position after the run of characters of S that starts at idx
RunEnd(s, idx, S) == IF idx <= Len(s) /\ CharAt(s, idx) \in S THEN RunEnd(s, idx + 1, S) ELSE idx

\* -{2,} followed by a word character, at position idx
DashesThenWord(s, idx) ==
    LET e == RunEnd(s, idx, {"-"}) IN e - idx >= 2 /\ IsWordAt(s, e)

\* a chunk that starts at idx may end just before position e (wordsep_re)
ChunkEndsAt(s, idx, e) ==
    \* hyphenated word: the hyphen at e - 1 closes the chunk
    \/ /\ e - 1 > idx /\ CharAt(s, e - 1) = "-"
       /\ \/ IsLetterAt(s, e - 3) /\ IsLetterAt(s, e - 2)
          \/ IsLetterAt(s, e - 4) /\ CharAt(s, e - 3) = "-" /\ IsLetterAt(s, e - 2) /\ e - 3 >= 1
       /\ \/ IsLetterAt(s, e) /\ IsLetterAt(s, e + 1)
          \/ IsLetterAt(s, e) /\ e + 1 <= Len(s) /\ CharAt(s, e + 1) = "-" /\ IsLetterAt(s, e + 2)
    \* end of word
    \/ e = Len(s) + 1 \/ IsSpaceAt(s, e)
    \* before an em-dash
    \/ IsWordPunctAt(s, e - 1) /\ DashesThenWord(s, e)

RECURSIVE WordEnd(_, _, _)
\* the shortest end e > idx of a chunk of non-white-space that starts at idx
WordEnd(s, idx, e) == IF e > Len(s) \/ ChunkEndsAt(s, idx, e) THEN e ELSE WordEnd(s, idx, e + 1)

RECURSIVE split_chunks(_, _)
\* TextWrapper._split: the chunks of s from position idx on
split_chunks(s, idx) ==
    IF idx > Len(s) THEN <<>>
    ELSE LET e == IF IsSpaceAt(s, idx) THEN RunEnd(s, idx, SpaceCh)
                  ELSE IF IsWordPunctAt(s, idx - 1) /\ DashesThenWord(s, idx)
                       THEN RunEnd(s, idx, {"-"})
                       ELSE WordEnd(s, idx, idx + 1)
         IN <<SubSeq(s, idx, e - 1)>> \o split_chunks(s, e)

RECURSIVE JoinChunks(_)
JoinChunks(cs) == IF cs = <<>> THEN "" ELSE Head(cs) \o JoinChunks(Tail(cs))

RECURSIVE TotalLen(_)
TotalLen(cs) == IF cs = <<>> THEN 0 ELSE Len(Head(cs)) + TotalLen(Tail(cs))

RECURSIVE FillCount(_, _, _)
\* how many leading chunks of cs fit in the room left
FillCount(cs, room, k) ==
    IF k < Len(cs) /\ Len(cs[k + 1]) <= room
    THEN FillCount(cs, room - Len(cs[k + 1]), k + 1) ELSE k

RECURSIVE wrap_chunks(_, _, _)
\* TextWrapper._wrap_chunks; lines is the list built so far
wrap_chunks(chunks, width, lines) ==
    IF chunks = <<>> THEN lines
    ELSE LET cs == IF strip(Head(chunks)) = "" /\ lines # <<>> THEN Tail(chunks) ELSE chunks
             n0 == FillCount(cs, width, 0)
             \* _handle_long_word with break_long_words False
             n == IF n0 < Len(cs) /\ Len(cs[n0 + 1]) > width /\ n0 = 0 THEN 1 ELSE n0
             cur0 == SubSeq(cs, 1, n)
             cur == IF cur0 # <<>> /\ strip(cur0[Len(cur0)]) = ""
                    THEN SubSeq(cur0, 1, Len(cur0) - 1) ELSE cur0
             rest == SubSeq(cs, n + 1, Len(cs))
             lines1 == IF cur # <<>> THEN Append(lines, JoinChunks(cur)) ELSE lines
         IN IF n = 0 /\ rest = chunks THEN lines
            ELSE wrap_chunks(rest, width, lines1)

wrap_text(text, width) == wrap_chunks(split_chunks(text, 1), width, <<>>)

(***************************************************************************)
(* ScreenplayParser.format_screenplay_content and its helpers.  None is    *)
(* the empty string.                                                       *)
(***************************************************************************)
NL == "\n"

SCENE_ELEMENTS ==
    << "WORK DESK", "CLOTHING RACK", "WALL MIRROR", "DANCE FLOOR",
       "ANGLE ON:", "CLOSE ON:", "INSERT:", "BACK TO SCENE",
       "PHONE CAM POV:", "END PHONE CAM POV:", "PRE-LAP:", "PRELAP:",
       "ANGLE ON", "CLOSE ON", "INSERT", "TIGHT ON", "WIDE ON" >>

RECURSIVE rstrip_chars(_, _)
rstrip_chars(s, S) == IF s # "" /\ CharAt(s, Len(s)) \in S
                      THEN rstrip_chars(SubSeq(s, 1, Len(s) - 1), S) ELSE s

spacing_rules ==
    { <<"action", "character">>, <<"dialogue", "character">>, <<"parenthetical", "character">>,
      <<"transition", "character">>,
      <<"dialogue", "action">>, <<"character", "action">>, <<"parenthetical", "action">>,
      <<"transition", "action">>,
      <<"action", "scene_heading">>, <<"dialogue", "scene_heading">>,
      <<"character", "scene_heading">>, <<"parenthetical", "scene_heading">>,
      <<"transition", "scene_heading">>, <<"pre_scene", "scene_heading">>,
      <<"action", "transition">>, <<"dialogue", "transition">>, <<"character", "transition">>,
      <<"parenthetical", "transition">>,
      <<"action", "pre_scene">>, <<"dialogue", "pre_scene">>, <<"character", "pre_scene">> }

needs_spacing(last_type, current_type) == <<last_type, current_type>> \in spacing_rules

focus_names == <<"hannah", "de-fi dom", "patrick", "roger", "kevin", "brian", "sam">>

\* next(name for name in names if s.startswith(name)); "" for None
first_focus_name(low) ==
    IF \E k \in 1..Len(focus_names) : startswith(low, focus_names[k])
    THEN focus_names[CHOOSE k \in 1..Len(focus_names) :
                         /\ startswith(low, focus_names[k])
                         /\ \A j \in 1..(k - 1) : ~startswith(low, focus_names[j])]
    ELSE ""

is_new_action_paragraph(last_action, current_action) ==
    LET last_lower == lower(last_action)
        current_lower == lower(current_action)
        scene_elements == {"work desk", "clothing rack", "wall mirror", "phone cam pov",
                           "angle on", "close on"}
        paragraph_starters == {"the ", "a ", "an ", "buzzing", "hannah", "de-fi", "patrick"}
        time_transitions == {"later", "moments later", "meanwhile", "suddenly", "then", "now"}
    IN IF first_focus_name(last_lower) # "" /\ first_focus_name(current_lower) # ""
          /\ first_focus_name(last_lower) # first_focus_name(current_lower) THEN TRUE
       ELSE IF (\E e \in scene_elements : contains(last_lower, e))
               /\ (\E e \in scene_elements : contains(current_lower, e)) THEN TRUE
       ELSE IF endswith(strip(last_action), ".") /\ strip(current_action) # ""
               /\ Head(strip(current_action)) \in AZ
               /\ (\E p \in paragraph_starters : startswith(current_lower, p)) THEN TRUE
       ELSE IF \E t \in time_transitions : contains(current_lower, t) THEN TRUE
       ELSE FALSE

\* any(text.upper().startswith(se.rstrip(':')) for se in SCENE_ELEMENTS)
starts_with_scene_element(text) ==
    \E k \in 1..Len(SCENE_ELEMENTS) :
        startswith(upper(text), rstrip_chars(SCENE_ELEMENTS[k], {":"}))

RECURSIVE split_lines(_)
\* content.split('\n')
split_lines(s) ==
    LET e == RunEnd(s, 1, {CharAt(s, k) : k \in 1..Len(s)} \ {NL})
    IN IF e > Len(s) THEN <<s>>
       ELSE <<SubSeq(s, 1, e - 1)>> \o split_lines(SubSeq(s, e + 1, Len(s)))

(***************************************************************************)
(* The documents: pages_data is a sequence of pages, page k having         *)
(* page_num k and the sequence of its raw lines.                           *)
(***************************************************************************)
MaxLines == 3
MaxPages == 2

Ind(n, text) == spaces(n) \o text

\* the lines of which the enumerated documents are made
Vocabulary ==
    << "INT. KITCHEN - DAY",
       Ind(38, "JOHN"),
       Ind(25, "There's nothing left."),
       "John opens the fridge.",
       "42.",
       "",
       "A (CONT'D)",
       "Nothing." >>

KitchenDoc ==
    << << "INT. KITCHEN - DAY", "", "John opens the fridge.", "",
          Ind(38, "JOHN"), Ind(25, "There's nothing left.") >> >>

CelebrityDoc ==
    << << Ind(38, "JOHN"), Ind(25, "I can't believe this is happening."),
          Ind(25, "Dan Bilzerian jet skis across the water.") >> >>

HyphenDoc ==
    << << Ind(38, "JOHN"), Ind(25, "It's a multi-"), "", Ind(25, "level marketing scheme.") >> >>

HyphenHeadingDoc ==
    << << "INSERT - PHOTO - DAY", Ind(38, "JOHN"), Ind(25, "It's a multi-"), "",
          "EST. CITY - NIGHT", "Nothing." >> >>

PreSceneHeadingDoc ==
    << << "INSERT - PHOTO - DAY", "INT. KITCHEN - DAY", Ind(38, "JOHN"), Ind(30, "(beat)"),
          "Nothing.", Ind(25, "There's nothing left.") >> >>

\* test_page_break_dialogue
PageBreakDoc ==
    << << Ind(36, "HANNAH (V.O.)"), Ind(25, "The metaverse... A pyramid scheme"),
          Ind(25, "for twenty-something kleptocrats. A") >>,
       << "2.", "", Ind(36, "HANNAH (V.O.) (CONT'D)"), Ind(25, "Discord circle jerk of crypto bros"),
          Ind(25, "getting off on multibillion-dollar"), Ind(25, "grifts.") >> >>

LongNameDoc ==
    << << "INT. KITCHEN - DAY", Ind(38, "THE VERY LONG NAMED CHARACTER OF THE STORY"),
          Ind(25, "There's nothing left.") >>,
       << >>,
       << "EXT. GARDEN - NIGHT", "EXT. STREET - NIGHT", Ind(38, "JOHN (V.O.)") >> >>

ArtifactDoc ==
    << << "OVER BLACK --", "HANNAH (CCOONNTT''DD)", "Nothing.", "((42))", "CUT TO:" >>,
       << "42.", Ind(38, "JOHN"), "Nothing.", "2.", Ind(25, "There's nothing left.") >> >>

\* two speeches, each cut short by an action line
InterruptedDoc ==
    << << Ind(38, "JOHN"), Ind(25, "I can't believe this is happening."),
          Ind(25, "There's nothing left."), Ind(38, "JOHN"), "John opens the fridge.",
          Ind(30, "(beat)"), Ind(25, "There's nothing left.") >> >>

\* a parenthetical in three pairs of parentheses and a line with four quotes
NestedArtifactDoc ==
    << << Ind(38, "JOHN"), Ind(30, "(((beat)))"), Ind(25, "It''''s over.") >> >>

\* one line of each type, none at the indentation of its type, with a blank
\* line and a page number inside the speech
AllTypesDoc ==
    << << Ind(12, "OVER BLACK --"), Ind(2, "INT. KITCHEN - DAY"), Ind(4, "John opens the fridge."),
          Ind(36, "JOHN"), "", "42.", Ind(28, "(beat)"), Ind(20, "There's nothing left."),
          Ind(40, "CUT TO:") >> >>

\* a continued speech of seven lines at the left margin
LongSpeechDoc ==
    << << "A (CONT'D)", "Nothing.", "Nothing.", "Nothing.", "Nothing.", "Nothing.", "Nothing.",
          "Nothing." >> >>

\* test_action_vs_dialogue_classification: a question at the left margin after
\* a character cue, and the same question at 10 spaces after a line of dialogue
UnindentedSpeechDoc ==
    << << Ind(38, "JOHN"), "You good?", Ind(38, "JOHN"), Ind(25, "There's nothing left."),
          Ind(10, "You good?") >> >>

\* a scene heading, a transition and a pre-scene marker, each right after a
\* character cue
MarkersInSpeechDoc ==
    << << Ind(38, "JOHN"), "INT. KITCHEN - DAY", Ind(38, "JOHN"), "CUT TO:", Ind(38, "JOHN"),
          "OVER BLACK --" >> >>

\* a prop of the exclusion set at the indentation of a character cue
ExcludedNameDoc ==
    << << Ind(38, "WORK DESK"), Ind(25, "There's nothing left.") >> >>

\* a line of dialogue in mixed case that holds "- later"
MixedCaseDoc ==
    << << Ind(38, "JOHN"), Ind(25, "See you - later.") >> >>

\* a scene heading between a line that ends with a hyphen and the next line
\* of the speech
HyphenAcrossHeadingDoc ==
    << << Ind(38, "JOHN"), Ind(25, "It's a multi-"), "INT. KITCHEN - DAY",
          Ind(25, "level marketing scheme.") >> >>

\* a sentence that begins with "Page 5"
PageSentenceDoc ==
    << << "INT. KITCHEN - DAY", "Page 5 of the report is missing." >> >>

ScenarioDocuments ==
    {<< >>, KitchenDoc, CelebrityDoc, HyphenDoc, HyphenHeadingDoc, PreSceneHeadingDoc,
     PageBreakDoc, LongNameDoc, ArtifactDoc, InterruptedDoc, NestedArtifactDoc, AllTypesDoc,
     LongSpeechDoc, UnindentedSpeechDoc, MarkersInSpeechDoc, ExcludedNameDoc, MixedCaseDoc,
     HyphenAcrossHeadingDoc, PageSentenceDoc}

\* ls cut into pages after the positions of cuts
RECURSIVE SplitPages(_, _, _)
SplitPages(ls, cuts, from) ==
    IF \E c \in cuts : c >= from
    THEN LET c == CHOOSE x \in cuts : x >= from /\ \A y \in cuts : y >= from => x <= y
         IN <<SubSeq(ls, from, c)>> \o SplitPages(ls, cuts, c + 1)
    ELSE <<SubSeq(ls, from, Len(ls))>>

\* the ways to cut n lines into at most MaxPages non-empty pages
PageCuts(n) == {c \in SUBSET (1..(n - 1)) : Cardinality(c) <= MaxPages - 1}

\* the document of the n lines Vocabulary[f[1]], ..., Vocabulary[f[n]], cut at cuts
EnumeratedDocument(n, f, cuts) == SplitPages([k \in 1..n |-> Vocabulary[f[k]]], cuts, 1)

RawLines ==
    {Vocabulary[k] : k \in 1..Len(Vocabulary)}
    \cup UNION {UNION {{d[pg][k] : k \in 1..Len(d[pg])} : pg \in 1..Len(d)}
                : d \in ScenarioDocuments}

\* ^[A-Z][A-Z\-\.#0-9]*(\s+[A-Z][A-Z\-\.#0-9]*){0,2}\s*\(
cue_head ==
    LET word == R_cat(<<R_set(AZ), R_star(R_set(AZ \cup {"-", ".", "#"} \cup D09))>>)
    IN R_cat(<<R_bol, word, R_rep(R_cat(<<R_plus(R_s), word>>), 0, 2), R_star(R_s), R_lit("(")>>)

\* \((CONT'?D|MORE|...)\)$, with re.IGNORECASE
cue_tail == R_cat(<<R_lit("("), contd_marker, R_lit(")"), R_eol>>)

is_continuation_cue(trimmed) == re_match(cue_head, trimmed, FALSE) /\ re_search(cue_tail, trimmed, TRUE)


(***************************************************************************)
(* The predicates of the classifier depend on the text of a line only, and *)
(* the parser applies them to the stripped raw lines and the stripped      *)
(* cleaned lines of the document: they are tabulated once over these.      *)
(***************************************************************************)
CleanLines == {clean_extraction_artifacts(l) : l \in RawLines}

LineFacts ==
    [l \in RawLines \cup CleanLines |->
        [strip |-> strip(l),
         leading_spaces |-> leading_spaces_of(l),
         is_page_number |-> is_page_number(l),
         clean_line |-> clean_extraction_artifacts(l)]] @@ << >>

Texts == {LineFacts[l].strip : l \in RawLines \cup CleanLines}

TextFacts ==
    [t \in Texts |->
        [strip |-> strip(t),
         upper |-> upper(t),
         strip_lower |-> strip(lower(t)),
         is_continuation_cue |-> is_continuation_cue(t),
         contains_action_indicators |-> contains_action_indicators(t),
         is_basic_action_line |-> is_basic_action_line(t),
         contains_definitive_action_patterns |-> contains_definitive_action_patterns(t),
         is_pre_scene_element |-> is_pre_scene_element(t),
         is_scene_heading |-> is_scene_heading(t),
         is_transition |-> is_transition(t),
         is_scene_element |-> is_scene_element(t),
         is_continuation_character_name |-> is_continuation_character_name(t),
         matches_name_shape |-> matches_name_shape(t),
         patterns_is_character_name |-> patterns_is_character_name(t),
         is_clearly_action |-> [b \in BOOLEAN |-> is_clearly_action(t, b)] @@ << >>,
         dialogue_score |-> dialogue_score(t),
         strip_parentheticals |-> strip_parentheticals(t),
         starts_with_scene_element |-> starts_with_scene_element(t),
         wrap_text |-> wrap_text(t, 35)]] @@ << >>

\* what the parser reads of the tables: of_line[l].p is p(l) for a line l,
\* of_text[t].p is p(t) for a stripped line t
Tables == [of_line |-> LineFacts, of_text |-> TextFacts]

(***************************************************************************)
(* format_screenplay_content; facts is of_text.                            *)
(***************************************************************************)
\* the lines one element adds, given last_type and last_action_text
element_lines(facts, element, last_type, last_action_text) ==
    LET element_type == element.type
        text == facts[element.text].strip
        indent == element.indent
        is_scene_element_ == facts[text].starts_with_scene_element
        before ==
            (IF is_scene_element_ /\ last_type # "" /\ last_type # "scene_heading"
             THEN <<"">> ELSE <<>>)
            \o (IF last_type # "" /\ needs_spacing(last_type, element_type)
                THEN <<"">> ELSE <<>>)
            \o (IF element_type = "action" /\ last_type = "action" /\ last_action_text # ""
                   /\ ~is_scene_element_
                   /\ is_new_action_paragraph(last_action_text, text)
                THEN <<"">> ELSE <<>>)
        body ==
            CASE element_type = "pre_scene" ->
                   <<spaces(12) \o text>> \o (IF text # "" THEN <<"">> ELSE <<>>)
              [] element_type = "scene_heading" -> <<spaces(indent) \o facts[text].upper, "">>
              [] element_type = "action" ->
                   IF text # ""
                   THEN <<spaces(indent) \o text>> \o (IF is_scene_element_ THEN <<"">> ELSE <<>>)
                   ELSE <<>>
              [] element_type = "character" ->
                   (IF last_type = "action" THEN <<"">> ELSE <<>>)
                   \o <<spaces(indent) \o facts[text].upper>>
              [] element_type = "dialogue" ->
                   LET wrapped == facts[text].wrap_text
                   IN [k \in 1..Len(wrapped) |-> spaces(indent) \o wrapped[k]]
              [] element_type = "parenthetical" -> <<spaces(indent) \o text>>
              [] element_type = "transition" ->
                   <<spaces(Max(0, 72 - Len(text))) \o facts[text].upper, "">>
              [] OTHER -> <<>>
    IN before \o body

RECURSIVE formatted_lines(_, _, _, _, _)
\* the loop of format_screenplay_content from element idx on
formatted_lines(facts, elements, idx, last_type, last_action_text) ==
    IF idx > Len(elements) THEN <<>>
    ELSE LET e == elements[idx]
             ls == element_lines(facts, e, last_type, last_action_text)
             lat == IF e.type = "action" /\ facts[e.text].strip # "" THEN facts[e.text].strip
                    ELSE last_action_text
         IN ls \o formatted_lines(facts, elements, idx + 1, e.type, lat)

RECURSIVE join_lines(_)
\* '\n'.join(lines)
join_lines(lines) ==
    IF lines = <<>> THEN ""
    ELSE IF Len(lines) = 1 THEN lines[1]
    ELSE lines[1] \o NL \o join_lines(Tail(lines))

RECURSIVE limit_newlines(_)
\* re.sub(r'\n{4,}', '\n\n\n', s): every maximal run of four or more line breaks
\* becomes three
limit_newlines(s) ==
    IF s = "" THEN ""
    ELSE LET e == RunEnd(s, 1, {NL})
             f == RunEnd(s, 1, {CharAt(s, k) : k \in 1..Len(s)} \ {NL})
         IN IF e > 1
            THEN (IF e - 1 >= 4 THEN NL \o NL \o NL ELSE SubSeq(s, 1, e - 1))
                 \o limit_newlines(SubSeq(s, e, Len(s)))
            ELSE SubSeq(s, 1, f - 1) \o limit_newlines(SubSeq(s, f, Len(s)))

format_screenplay_content(facts, elements) ==
    limit_newlines(join_lines(formatted_lines(facts, elements, 1, "", "")))

(***************************************************************************)
(* ElementClassifier: look-back rules and classify_line.  position is the  *)
(* 0-based index of the line in lines, the raw lines of its page; facts is *)
(* the table of the predicates, T.of_text[text].p for p(text).                 *)
(***************************************************************************)
line_at(lines, idx) == lines[idx + 1]

\* CHARACTER_EXCLUSIONS is not an attribute of the classifier: exclusions is empty
is_character_name(T, text, leading_spaces) ==
    IF T.of_text[text].is_continuation_character_name THEN TRUE
    ELSE IF ~(32 <= leading_spaces /\ leading_spaces <= 48) THEN FALSE
    ELSE IF text = "" \/ Head(text) # UpCh(Head(text)) THEN FALSE
    ELSE IF T.of_text[text].matches_name_shape
         THEN IF upper(text) \in exclusions THEN FALSE ELSE TRUE
         ELSE FALSE

is_likely_dialogue(T, text, leading_spaces, last_element) ==
    IF leading_spaces < 18 \/ leading_spaces > 35 THEN FALSE
    ELSE IF T.of_text[text].is_basic_action_line THEN FALSE
    ELSE IF T.of_text[text].strip_lower = "" THEN FALSE
    ELSE IF T.of_text[text].contains_definitive_action_patterns THEN FALSE
    ELSE IF T.of_text[text].dialogue_score >= 85 THEN TRUE
    ELSE IF T.of_text[text].dialogue_score >= 75
            /\ last_element \in {"character", "parenthetical", "dialogue"} THEN TRUE
    ELSE IF T.of_text[text].dialogue_score >= 60 /\ last_element = "character" THEN TRUE
    ELSE FALSE

is_specific_hyphenated_continuation(T, text, position, lines) ==
    IF position < 2 THEN FALSE
    ELSE IF T.of_text[text].contains_action_indicators \/ T.of_text[text].is_basic_action_line THEN FALSE
    ELSE LET hyphen_line_pos == position - 2
             hyphen_line == T.of_line[line_at(lines, hyphen_line_pos)].strip
         IN IF hyphen_line_pos >= 0 /\ hyphen_line_pos < Len(lines)
               /\ endswith(hyphen_line, "-") /\ Len(hyphen_line) > 10
               /\ ~T.of_text[hyphen_line].is_basic_action_line
               /\ hyphen_line_pos > 0
            THEN LET prev == line_at(lines, hyphen_line_pos - 1)
                 IN is_character_name(T, T.of_line[prev].strip, T.of_line[prev].leading_spaces)
            ELSE FALSE

\* the inner loop: no line of lines[idx+1 .. position-1] is empty, a scene
\* heading, a character name or definitive action
block_unbroken(T, idx, position, lines) ==
    \A j \in (idx + 1)..(position - 1) :
        j >= Len(lines) \/
        LET check_line == T.of_line[line_at(lines, j)].strip
        IN ~(check_line = ""
             \/ T.of_text[check_line].is_scene_heading
             \/ T.of_text[check_line].patterns_is_character_name
             \/ T.of_text[check_line].contains_definitive_action_patterns)

\* the outer loop of _is_in_continuation_dialogue_block, at index idx going down
RECURSIVE continuation_scan(_, _, _, _, _)
continuation_scan(T, idx, start_pos, position, lines) ==
    IF idx < start_pos THEN FALSE
    ELSE IF idx < 0 \/ idx >= Len(lines) THEN continuation_scan(T, idx - 1, start_pos, position, lines)
    ELSE LET line == T.of_line[line_at(lines, idx)].strip
         IN IF T.of_text[line].is_continuation_character_name THEN block_unbroken(T, idx, position, lines)
            ELSE IF T.of_text[line].patterns_is_character_name \/ T.of_text[line].is_scene_heading THEN FALSE
            ELSE continuation_scan(T, idx - 1, start_pos, position, lines)

\* faulty variant: the scan goes back to the top of the page
scan_whole_page(T, position, lines) ==
    continuation_scan(T, position - 1, 0, position, lines)

\* faulty variant: the scan goes six lines back
scan_six_lines(T, position, lines) ==
    continuation_scan(T, position - 1, Max(0, position - 6), position, lines)

is_in_continuation_dialogue_block(T, position, lines) ==
    continuation_scan(T, position - 1, Max(0, position - 5), position, lines)

ElementTypes ==
    {"scene_heading", "character", "dialogue", "parenthetical", "transition", "pre_scene", "action"}

\* the value classify_line returns, with the ClassifierState it leaves; rule
\* names the return statement taken
Classified(rule, type, text, indent, last_element, in_dialogue_block) ==
    [element |-> [type |-> type, text |-> text, indent |-> indent], rule |-> rule,
     last_element |-> last_element, in_dialogue_block |-> in_dialogue_block]

\* faulty variant: the character cue is emitted at the left margin
character_result_at_margin(rule, trimmed, st) ==
    Classified(rule, "character", trimmed, 0, "character", TRUE)

\* faulty variant: the character cue leaves in_dialogue_block as it was
character_result_keeping_block(rule, trimmed, st) ==
    Classified(rule, "character", trimmed, 38, "character", st.in_dialogue_block)

\* self.last_element = 'character'; self.in_dialogue_block = True; return character
character_result(rule, trimmed, st) ==
    Classified(rule, "character", trimmed, 38, "character", TRUE)

\* faulty variant: the action is emitted and last_element is left at dialogue
action_after_dialogue(rule, trimmed) ==
    Classified(rule, "action", trimmed, 12, "dialogue", FALSE)

\* faulty variant: the action is emitted and the dialogue block stays open
action_keeping_block(rule, trimmed) ==
    Classified(rule, "action", trimmed, 12, "action", TRUE)

\* self.in_dialogue_block = False; self.last_element = 'action'; return action
block_breaking_action(rule, trimmed) ==
    Classified(rule, "action", trimmed, 12, "action", FALSE)

\* step 6 of classify_line, entered with in_dialogue_block true and
\* last_element in character, parenthetical, dialogue; "none" when it falls
\* through to step 7
dialogue_step(T, trimmed, leading_spaces, position, lines, last_element) ==
    IF T.of_text[trimmed].contains_action_indicators \/ T.of_text[trimmed].is_clearly_action[TRUE]
    THEN block_breaking_action("strong_action", trimmed)
    ELSE IF trimmed # "" /\ ~T.of_text[trimmed].is_scene_element
            /\ is_likely_dialogue(T, trimmed, leading_spaces, last_element)
    THEN Classified("likely_dialogue", "dialogue", trimmed, 25, "dialogue", TRUE)
    ELSE IF last_element \in {"character", "dialogue"} /\ trimmed # ""
    THEN IF T.of_text[trimmed].contains_action_indicators \/ T.of_text[trimmed].is_basic_action_line
         THEN block_breaking_action("continuation_action", trimmed)
         ELSE IF position > 0 /\ is_in_continuation_dialogue_block(T, position, lines)
         THEN Classified("contd_block_dialogue", "dialogue", trimmed, 25, "dialogue", TRUE)
         ELSE IF 18 <= leading_spaces /\ leading_spaces <= 35
         THEN Classified("indented_dialogue", "dialogue", trimmed, 25, "dialogue", TRUE)
         ELSE block_breaking_action("unindented_action", trimmed)
    ELSE Classified("none", "none", trimmed, 0, last_element, TRUE)

\* faulty variant: the default action takes the indent of a pre-scene marker
default_action_unindented(T, trimmed, in_dialogue_block) ==
    Classified("default_action", "action", trimmed, 0, "action",
               IF T.of_text[trimmed].is_clearly_action[in_dialogue_block]
                  \/ T.of_text[trimmed].is_scene_element
               THEN FALSE ELSE in_dialogue_block)

\* step 7: action; the block ends only on a clear action or a scene element
default_action(T, trimmed, in_dialogue_block) ==
    Classified("default_action", "action", trimmed, 12, "action",
               IF T.of_text[trimmed].is_clearly_action[in_dialogue_block] \/ T.of_text[trimmed].is_scene_element
               THEN FALSE ELSE in_dialogue_block)

\* faulty variant: the transition opens the dialogue block
scene_marker_opening_block(T, trimmed) ==
    IF T.of_text[trimmed].is_pre_scene_element
    THEN Classified("pre_scene", "pre_scene", trimmed, 0, "pre_scene", FALSE)
    ELSE IF T.of_text[trimmed].is_scene_heading
    THEN Classified("scene_heading", "scene_heading", trimmed, 12, "scene_heading", FALSE)
    ELSE IF T.of_text[trimmed].is_transition
    THEN Classified("transition", "transition", trimmed, 55, "transition", TRUE)
    ELSE Classified("none", "none", trimmed, 0, "None", FALSE)

\* faulty variant: the scene heading is tried before the pre-scene marker
scene_marker_heading_first(T, trimmed) ==
    IF T.of_text[trimmed].is_scene_heading
    THEN Classified("scene_heading", "scene_heading", trimmed, 12, "scene_heading", FALSE)
    ELSE IF T.of_text[trimmed].is_pre_scene_element
    THEN Classified("pre_scene", "pre_scene", trimmed, 0, "pre_scene", FALSE)
    ELSE IF T.of_text[trimmed].is_transition
    THEN Classified("transition", "transition", trimmed, 55, "transition", FALSE)
    ELSE Classified("none", "none", trimmed, 0, "None", FALSE)

\* steps 2 to 4 of classify_line: pre-scene marker, scene heading, transition;
\* "none" when none of them takes the line
scene_marker(T, trimmed) ==
    IF T.of_text[trimmed].is_pre_scene_element
    THEN Classified("pre_scene", "pre_scene", trimmed, 0, "pre_scene", FALSE)
    ELSE IF T.of_text[trimmed].is_scene_heading
    THEN Classified("scene_heading", "scene_heading", trimmed, 12, "scene_heading", FALSE)
    ELSE IF T.of_text[trimmed].is_transition
    THEN Classified("transition", "transition", trimmed, 55, "transition", FALSE)
    ELSE Classified("none", "none", trimmed, 0, "None", FALSE)

\* ElementClassifier.classify_line(line, position, lines) in ClassifierState st
classify_line(T, line, position, lines, st) ==
    LET trimmed == T.of_line[line].strip
        leading_spaces == T.of_line[line].leading_spaces
        marker == scene_marker(T, trimmed)
        step == dialogue_step(T, trimmed, leading_spaces, position, lines, st.last_element)
    IN IF T.of_text[trimmed].is_continuation_cue
       THEN character_result("continuation_cue", trimmed, st)
       ELSE IF trimmed # "" /\ is_specific_hyphenated_continuation(T, trimmed, position, lines)
       THEN Classified("hyphenated_continuation", "dialogue", trimmed, 25, "dialogue", TRUE)
       ELSE IF marker.rule # "none"
       THEN marker
       ELSE IF is_character_name(T, trimmed, leading_spaces)
       THEN character_result("character_name", trimmed, st)
       ELSE IF st.in_dialogue_block /\ startswith(trimmed, "(") /\ endswith(trimmed, ")")
       THEN Classified("parenthetical", "parenthetical", trimmed, 30, "parenthetical",
                       st.in_dialogue_block)
       ELSE IF st.in_dialogue_block
               /\ st.last_element \in {"character", "parenthetical", "dialogue"}
               /\ step.rule # "none"
       THEN step
       ELSE default_action(T, trimmed, st.in_dialogue_block)

(***************************************************************************)
(* ScreenplayParser._parse_sequential_content as a state machine: one step *)
(* per line of the document, page after page.                              *)
(***************************************************************************)
VARIABLES
    pages_data,              \* the document being parsed
    pc,                      \* "idle" before the call, "parsing", "done" once it returned
    page_num,                \* the page of the outer loop, from 1
    i,                       \* the 0-based index of the inner loop
    classifier,              \* ClassifierState: last_element, in_dialogue_block
    scenes,                  \* the scenes pushed so far
    current_scene_heading,   \* "" for None
    current_scene_elements,
    scene_characters,
    current_scene_page,
    calls,                   \* history: every call of classify_line, in order
    scene_parts,             \* history: for each pushed scene, its heading Element and Elements
    open_heading,            \* history: the Element that opened the current scene
    suspended,               \* the locals of the call made by the request thread that is not running
    completed                \* history: the calls of _parse_sequential_content that returned

vars ==
    <<pages_data, pc, page_num, i, classifier, scenes, current_scene_heading,
      current_scene_elements, scene_characters, current_scene_page, calls, scene_parts,
      open_heading, suspended, completed>>

None == [type |-> "none"]

\* the locals of a call of _parse_sequential_content that has not begun
IdleFrame ==
    [pages_data |-> << >>, pc |-> "idle", page_num |-> 1, i |-> 0, scenes |-> << >>,
     current_scene_heading |-> "", current_scene_elements |-> << >>, scene_characters |-> {},
     current_scene_page |-> 1, calls |-> << >>, scene_parts |-> << >>, open_heading |-> None]

\* ElementClassifier.__init__
NewClassifier == [last_element |-> "None", in_dialogue_block |-> FALSE]

Init ==
    /\ pages_data = << >>
    /\ pc = "idle"
    /\ page_num = 1
    /\ i = 0
    /\ classifier = NewClassifier
    /\ scenes = << >>
    /\ current_scene_heading = ""
    /\ current_scene_elements = << >>
    /\ scene_characters = {}
    /\ current_scene_page = 1
    /\ calls = << >>
    /\ scene_parts = << >>
    /\ open_heading = None
    /\ suspended = IdleFrame
    /\ completed = << >>

\* faulty variant: the parse goes on with the classifier the parser holds
kept_classifier == classifier

\* self.classifier = ElementClassifier()
reset_classifier == NewClassifier

\* the entry of _parse_sequential_content(pages)
StartParse(pages) ==
    /\ pages_data' = pages
    /\ pc' = "parsing"
    /\ page_num' = 1
    /\ i' = 0
    /\ classifier' = reset_classifier
    /\ scenes' = << >>
    /\ current_scene_heading' = ""
    /\ current_scene_elements' = << >>
    /\ scene_characters' = {}
    /\ current_scene_page' = 1
    /\ calls' = << >>
    /\ scene_parts' = << >>
    /\ open_heading' = None
    /\ UNCHANGED <<suspended, completed>>

\* one call on a new parser, for a scenario document or a document of at most
\* MaxLines lines of the vocabulary
BeginParse ==
    /\ pc = "idle"
    /\ \/ \E pages \in ScenarioDocuments : StartParse(pages)
       \/ \E n \in 1..MaxLines : \E f \in [1..n -> 1..Len(Vocabulary)] : \E cuts \in PageCuts(n) :
              StartParse(EnumeratedDocument(n, f, cuts))

AtLine == pc = "parsing" /\ page_num <= Len(pages_data) /\ i < Len(pages_data[page_num])

lines == pages_data[page_num]
raw_line == line_at(lines, i)

\* continue: the loop passes over the line, nothing but the index changes
Skip ==
    /\ i' = i + 1
    /\ UNCHANGED <<pages_data, pc, page_num, classifier, scenes, current_scene_heading,
                   current_scene_elements, scene_characters, current_scene_page, calls,
                   scene_parts, open_heading, suspended, completed>>

SkipBlankLine(T) ==
    /\ AtLine
    /\ T.of_line[raw_line].strip = ""
    /\ Skip

\* faulty variant: a page number ends the dialogue block
SkipPageNumberResetting(T) ==
    /\ AtLine
    /\ T.of_line[raw_line].strip # ""
    /\ T.of_line[raw_line].is_page_number
    /\ i' = i + 1
    /\ classifier' = NewClassifier
    /\ UNCHANGED <<pages_data, pc, page_num, scenes, current_scene_heading,
                   current_scene_elements, scene_characters, current_scene_page, calls,
                   scene_parts, open_heading, suspended, completed>>

\* if self._is_page_number(raw_line): continue
SkipPageNumber(T) ==
    /\ AtLine
    /\ T.of_line[raw_line].strip # ""
    /\ T.of_line[raw_line].is_page_number
    /\ Skip

SkipEmptiedLine(T) ==
    /\ AtLine
    /\ T.of_line[raw_line].strip # ""
    /\ ~T.of_line[raw_line].is_page_number
    /\ T.of_line[T.of_line[raw_line].clean_line].strip = ""
    /\ Skip

Classifiable(T) ==
    /\ AtLine
    /\ T.of_line[raw_line].strip # ""
    /\ ~T.of_line[raw_line].is_page_number
    /\ T.of_line[T.of_line[raw_line].clean_line].strip # ""

\* classifier.classify_line(clean_line, i, lines)
result(T) == classify_line(T, T.of_line[raw_line].clean_line, i, lines, classifier)

\* element['page'] = page_num
Element(r) == [type |-> r.element.type, text |-> r.element.text, indent |-> r.element.indent,
               page |-> page_num]

\* faulty variants of the push guard: a scene that holds only its heading is
\* not pushed; the content before the first heading is not pushed
has_scene_elements == current_scene_elements # << >>
has_scene_heading == current_scene_heading # ""

\* if current_scene_heading or current_scene_elements
has_open_scene == current_scene_heading # "" \/ current_scene_elements # << >>

\* f"            {current_scene_heading.upper()}" if current_scene_heading else ""
heading_of(scene_heading) ==
    IF scene_heading # "" THEN spaces(12) \o upper(scene_heading) ELSE ""

\* the scene pushed when the open one is closed
Scene(T, page_end) ==
    [heading |-> heading_of(current_scene_heading),
     content |-> format_screenplay_content(T.of_text, current_scene_elements),
     characters |-> scene_characters,
     page_start |-> current_scene_page,
     page_end |-> page_end]

Parts == [heading |-> open_heading, elements |-> current_scene_elements]

\* what every classified line does to the classifier and the history
Classify(r) ==
    /\ classifier' = [last_element |-> r.last_element,
                      in_dialogue_block |-> r.in_dialogue_block]
    /\ calls' = Append(calls, [line |-> raw_line, position |-> i, before |-> classifier,
                               rule |-> r.rule, element |-> Element(r),
                               after |-> classifier'])
    /\ i' = i + 1
    /\ UNCHANGED <<pages_data, pc, page_num, suspended, completed>>

\* faulty variant: the heading Element is the first Element of its scene
heading_in_elements(element) == <<element>>

\* current_scene_elements = [] when a scene starts
new_scene_elements(element) == << >>

SceneHeadingLine(T) ==
    /\ Classifiable(T)
    /\ \E r \in {result(T)} :
        /\ r.element.type = "scene_heading"
        /\ Classify(r)
        /\ IF has_open_scene
           THEN /\ scenes' = Append(scenes, Scene(T, IF page_num > 1 THEN page_num - 1 ELSE 1))
                /\ scene_parts' = Append(scene_parts, Parts)
           ELSE UNCHANGED <<scenes, scene_parts>>
        /\ current_scene_heading' = r.element.text
        /\ current_scene_page' = page_num
        /\ current_scene_elements' = new_scene_elements(Element(r))
        /\ scene_characters' = {}
        /\ open_heading' = Element(r)

\* faulty variant: a name of any length is tracked
is_nonempty_name(clean_name) == clean_name # ""

\* if clean_name and 2 <= len(clean_name) <= 35
is_tracked_name(clean_name) ==
    clean_name # "" /\ 2 <= Len(clean_name) /\ Len(clean_name) <= 35

CharacterLine(T) ==
    /\ Classifiable(T)
    /\ \E r \in {result(T)} :
        /\ r.element.type = "character"
        /\ Classify(r)
        /\ LET clean_name == T.of_text[r.element.text].strip_parentheticals
           IN scene_characters' = IF is_tracked_name(clean_name)
                                  THEN scene_characters \cup {clean_name}
                                  ELSE scene_characters
        /\ current_scene_elements' = Append(current_scene_elements, Element(r))
        /\ UNCHANGED <<scenes, current_scene_heading, current_scene_page, scene_parts,
                       open_heading>>

OtherLine(T) ==
    /\ Classifiable(T)
    /\ \E r \in {result(T)} :
        /\ r.element.type \notin {"scene_heading", "character"}
        /\ Classify(r)
        /\ current_scene_elements' = Append(current_scene_elements, Element(r))
        /\ UNCHANGED <<scenes, current_scene_heading, scene_characters, current_scene_page,
                       scene_parts, open_heading>>

\* the inner loop is over: the outer loop takes the next page
NextPage ==
    /\ pc = "parsing"
    /\ page_num <= Len(pages_data)
    /\ i >= Len(pages_data[page_num])
    /\ page_num' = page_num + 1
    /\ i' = 0
    /\ UNCHANGED <<pages_data, pc, classifier, scenes, current_scene_heading,
                   current_scene_elements, scene_characters, current_scene_page, calls,
                   scene_parts, open_heading, suspended, completed>>

\* after the loops: the final scene, and return
FinalScene(T) ==
    /\ pc = "parsing"
    /\ page_num > Len(pages_data)
    /\ IF has_open_scene
       THEN /\ scenes' = Append(scenes, Scene(T, IF pages_data # << >> THEN Len(pages_data) ELSE 1))
            /\ scene_parts' = Append(scene_parts, Parts)
       ELSE UNCHANGED <<scenes, scene_parts>>
    /\ pc' = "done"
    /\ completed' = Append(completed, [pages_data |-> pages_data, calls |-> calls,
                                       scenes |-> scenes'])
    /\ UNCHANGED <<pages_data, page_num, i, classifier, current_scene_heading,
                   current_scene_elements, scene_characters, current_scene_page, calls,
                   open_heading, suspended>>

\* the tables are read once for the whole step
Next ==
    \E T \in {Tables} :
        \/ BeginParse
        \/ SkipBlankLine(T)
        \/ SkipPageNumber(T)
        \/ SkipEmptiedLine(T)
        \/ SceneHeadingLine(T)
        \/ CharacterLine(T)
        \/ OtherLine(T)
        \/ NextPage
        \/ FinalScene(T)

Spec == Init /\ [][Next]_vars

(***************************************************************************)
(* The service: app.py holds one ScreenplayParser for all requests, and    *)
(* every request to /parse-screenplay calls it.  The requests a thread     *)
(* serves follow one another on that parser; the server runs two request   *)
(* threads, of which one is running and the other is suspended.            *)
(***************************************************************************)
MaxParses == 3

\* a page that begins in the middle of a speech
MidSpeechDoc == << << Ind(25, "There's nothing left."), Ind(38, "JOHN") >> >>

\* a speech that goes on over the page, under the page number
PageTurnDoc ==
    << << "INT. KITCHEN - DAY", "", Ind(38, "JOHN") >>,
       << "42.", "((42))", Ind(25, "There's nothing left.") >> >>

\* the documents the requests carry
ServiceDocuments == {PageTurnDoc, MidSpeechDoc}

\* the calls of _parse_sequential_content begun so far
parses_begun ==
    Len(completed) + (IF pc = "parsing" THEN 1 ELSE 0)
                   + (IF suspended.pc = "parsing" THEN 1 ELSE 0)

\* parse_screenplay: the running thread takes a request and calls the parser
ParseRequest ==
    /\ pc \in {"idle", "done"}
    /\ parses_begun < MaxParses
    /\ \E pages \in ServiceDocuments : StartParse(pages)

\* the locals of the running call
Frame ==
    [pages_data |-> pages_data, pc |-> pc, page_num |-> page_num, i |-> i, scenes |-> scenes,
     current_scene_heading |-> current_scene_heading,
     current_scene_elements |-> current_scene_elements,
     scene_characters |-> scene_characters, current_scene_page |-> current_scene_page,
     calls |-> calls, scene_parts |-> scene_parts, open_heading |-> open_heading]

\* the interpreter passes from the running thread to the other one, between
\* two iterations of the loop: the locals change places, the parser and its
\* classifier are the same for both
Switch ==
    /\ suspended # Frame
    /\ suspended' = Frame
    /\ pages_data' = suspended.pages_data
    /\ pc' = suspended.pc
    /\ page_num' = suspended.page_num
    /\ i' = suspended.i
    /\ scenes' = suspended.scenes
    /\ current_scene_heading' = suspended.current_scene_heading
    /\ current_scene_elements' = suspended.current_scene_elements
    /\ scene_characters' = suspended.scene_characters
    /\ current_scene_page' = suspended.current_scene_page
    /\ calls' = suspended.calls
    /\ scene_parts' = suspended.scene_parts
    /\ open_heading' = suspended.open_heading
    /\ UNCHANGED <<classifier, completed>>

\* one thread: its requests are parsed one after the other
NextSequential ==
    \E T \in {Tables} :
        \/ ParseRequest
        \/ SkipBlankLine(T)
        \/ SkipPageNumber(T)
        \/ SkipEmptiedLine(T)
        \/ SceneHeadingLine(T)
        \/ CharacterLine(T)
        \/ OtherLine(T)
        \/ NextPage
        \/ FinalScene(T)

SequentialSpec == Init /\ [][NextSequential]_vars

\* two threads
NextService == NextSequential \/ Switch

ServiceSpec == Init /\ [][NextService]_vars

\* every Element classify_line returned, in page-then-line order
emitted == [k \in 1..Len(calls) |-> calls[k].element]

(***************************************************************************)
(* Properties of the scene assembler.  scene_parts[k] holds the Elements   *)
(* that went into scenes[k].                                               *)
(***************************************************************************)
Range(s) == {s[k] : k \in 1..Len(s)}

\* the Elements of one scene, its heading first
PartElements(p) == (IF p.heading.type = "none" THEN << >> ELSE <<p.heading>>) \o p.elements

RECURSIVE Flatten(_)
Flatten(ps) == IF ps = << >> THEN << >> ELSE PartElements(Head(ps)) \o Flatten(Tail(ps))

\* the lines format_screenplay_content makes of the Elements of scene k
RenderedLines(k) == formatted_lines(Tables.of_text, scene_parts[k].elements, 1, "", "")

\* C1: every Element classify_line returned is in exactly one scene, as its
\* heading or among its elements, and the scenes read in output order give the
\* Elements back in page-then-line order; while the document is being read the
\* open scene holds the Elements not pushed yet.  The heading of a scene is
\* the text of its heading Element.
C1_ScenesPartitionElements ==
    /\ Len(scene_parts) = Len(scenes)
    /\ pc = "parsing" => Flatten(scene_parts) \o PartElements(Parts) = emitted
    /\ pc = "done" =>
          /\ Flatten(scene_parts) = emitted
          /\ \A k \in 1..Len(scenes) :
                scenes[k].heading =
                    (IF scene_parts[k].heading.type = "none" THEN ""
                     ELSE spaces(12) \o upper(scene_parts[k].heading.text))

\* a document with content before its first heading came out as several scenes
C1_Witness ==
    /\ pc = "done"
    /\ Len(scenes) >= 2
    /\ Len(emitted) >= 3
    /\ scenes[1].heading = ""
    /\ scene_parts[2].elements # << >>

HeadingElements == SelectSeq(emitted, LAMBDA e : e.type = "scene_heading")

\* 1 when some Element precedes the first scene_heading Element
LeadingScenes == IF emitted # << >> /\ emitted[1].type # "scene_heading" THEN 1 ELSE 0

\* C2: no scene holds a scene_heading Element among its elements (the heading
\* closes the open scene); the output has one scene per scene_heading Element,
\* the k-th headed by the k-th heading Element, and one heading-less scene
\* before them exactly when an Element precedes the first heading; only the
\* first scene can have an empty heading.
C2_OneScenePerHeading ==
    /\ \A k \in 1..Len(scenes) :
          /\ \A j \in 1..Len(scene_parts[k].elements) :
                scene_parts[k].elements[j].type # "scene_heading"
          /\ k >= 2 => scenes[k].heading # ""
    /\ pc = "done" =>
          /\ Len(scenes) = Len(HeadingElements) + LeadingScenes
          /\ LeadingScenes = 1 =>
                /\ scenes[1].heading = ""
                /\ scene_parts[1].elements # << >>
                /\ scene_parts[1].elements =
                       SubSeq(emitted, 1, Len(scene_parts[1].elements))
          /\ LeadingScenes = 0 /\ scenes # << >> => scenes[1].heading # ""
          /\ \A k \in 1..Len(HeadingElements) :
                /\ scene_parts[k + LeadingScenes].heading = HeadingElements[k]
                /\ scenes[k + LeadingScenes].heading =
                       spaces(12) \o upper(HeadingElements[k].text)

\* a leading scene followed by two headed scenes
C2_Witness ==
    /\ pc = "done"
    /\ LeadingScenes = 1
    /\ Len(HeadingElements) >= 2
    /\ Len(scenes) = 3

CleanedNames(k) ==
    {Tables.of_text[e.text].strip_parentheticals :
        e \in {x \in Range(scene_parts[k].elements) : x.type = "character"}}

\* C4 as stated: the character set of a pushed scene is the set of the cleaned
\* names of its character Elements, whatever their length
C4_EveryNameTracked ==
    \A k \in 1..Len(scenes) : scenes[k].characters = CleanedNames(k)

\* C4, amended: the character set of a pushed scene is the set of the cleaned
\* names of its character Elements that are 2 to 35 characters long.
C4_NamesOfTrackedLength ==
    \A k \in 1..Len(scenes) :
        scenes[k].characters = {n \in CleanedNames(k) : 2 <= Len(n) /\ Len(n) <= 35}

\* a pushed scene with a tracked name and a character Element whose cleaned
\* name is too short or too long
C4_Witness ==
    \E k \in 1..Len(scenes) :
        /\ scenes[k].characters # {}
        /\ \E n \in CleanedNames(k) : Len(n) < 2 \/ Len(n) > 35

(***************************************************************************)
(* Properties of the classifier.  calls[k] holds the k-th call of          *)
(* classify_line: the raw line and its position, the ClassifierState       *)
(* before and after, the return statement taken and the Element.           *)
(***************************************************************************)
ClassifierStates ==
    [last_element : ElementTypes \cup {"None"}, in_dialogue_block : BOOLEAN]

\* classify_line on the line the loop is at, in ClassifierState st
classified_in(T, st) == classify_line(T, T.of_line[raw_line].clean_line, i, lines, st)

\* C5: a call of classify_line that returns a character Element, by the
\* continuation-cue rule or by the character-name rule, leaves
\* in_dialogue_block true; on the line the loop is at this is so in every
\* ClassifierState, not only in the one the parser is in.
C5_CharacterOpensBlock ==
    /\ \A k \in 1..Len(calls) :
          calls[k].element.type = "character" =>
              /\ calls[k].rule \in {"continuation_cue", "character_name"}
              /\ calls[k].after.in_dialogue_block
    /\ \A T \in {Tables} :
          Classifiable(T) =>
              \A st \in ClassifierStates :
                  LET returned == classified_in(T, st)
                  IN returned.element.type = "character" => returned.in_dialogue_block

\* both rules have returned a character, one with the block closed before
\* the call and one with the block open
C5_Witness ==
    \E j, k \in 1..Len(calls) :
        /\ calls[j].rule = "continuation_cue"
        /\ calls[k].rule = "character_name"
        /\ calls[j].before.in_dialogue_block # calls[k].before.in_dialogue_block

\* the returns of the dialogue step
DialogueStepRules ==
    {"strong_action", "likely_dialogue", "continuation_action", "contd_block_dialogue",
     "indented_dialogue", "unindented_action"}

\* the line of calls[k] as the classifier received it, stripped
TrimmedOf(k) == Tables.of_line[Tables.of_line[calls[k].line].clean_line].strip

\* C6: when the dialogue step returns action on an action signal (the check
\* that opens the step, or the check of the continuation branch), the call
\* was made with in_dialogue_block true, it leaves in_dialogue_block false and
\* last_element action, the parser keeps that state until the next call, and
\* the next call takes neither the parenthetical rule nor the dialogue step.
C6_StrongActionClosesBlock ==
    \A k \in 1..Len(calls) :
        calls[k].rule \in {"strong_action", "continuation_action"} =>
            /\ calls[k].before.in_dialogue_block
            /\ calls[k].before.last_element \in {"character", "parenthetical", "dialogue"}
            /\ \/ Tables.of_text[TrimmedOf(k)].contains_action_indicators
               \/ Tables.of_text[TrimmedOf(k)].is_clearly_action[TRUE]
               \/ Tables.of_text[TrimmedOf(k)].is_basic_action_line
            /\ calls[k].element.type = "action"
            /\ calls[k].after = [last_element |-> "action", in_dialogue_block |-> FALSE]
            /\ k = Len(calls) => classifier = calls[k].after
            /\ k < Len(calls) =>
                  /\ calls[k + 1].before = calls[k].after
                  /\ calls[k + 1].rule \notin DialogueStepRules \cup {"parenthetical"}

\* the opening check and the continuation check have both returned action;
\* the line after the first is indented as dialogue, the line after the
\* second is in parentheses, and both are action
C6_Witness ==
    \E j, k \in 1..(Len(calls) - 1) :
        /\ calls[j].rule = "strong_action"
        /\ calls[j + 1].element.text = "There's nothing left."
        /\ calls[j + 1].element.type = "action"
        /\ calls[k].rule = "continuation_action"
        /\ calls[k + 1].element.text = "(beat)"
        /\ calls[k + 1].element.type = "action"

\* the condition of the n-th rule, in the order of the specification, on the
\* cleaned line at position of lns in ClassifierState st
RuleHolds(T, n, line, position, lns, st) ==
    LET trimmed == T.of_line[line].strip
        leading_spaces == T.of_line[line].leading_spaces
    IN CASE n = 1 -> T.of_text[trimmed].is_continuation_cue
         [] n = 2 -> trimmed # ""
                     /\ is_specific_hyphenated_continuation(T, trimmed, position, lns)
         [] n = 3 -> T.of_text[trimmed].is_pre_scene_element
         [] n = 4 -> T.of_text[trimmed].is_scene_heading
         [] n = 5 -> T.of_text[trimmed].is_transition
         [] n = 6 -> is_character_name(T, trimmed, leading_spaces)
         [] n = 7 -> st.in_dialogue_block /\ startswith(trimmed, "(") /\ endswith(trimmed, ")")
         [] n = 8 -> /\ st.in_dialogue_block
                     /\ st.last_element \in {"character", "parenthetical", "dialogue"}
                     /\ dialogue_step(T, trimmed, leading_spaces, position, lns,
                                      st.last_element).rule # "none"
         [] OTHER -> TRUE

\* the type the n-th rule gives
RuleType(T, n, line, position, lns, st) ==
    CASE n \in {1, 6} -> "character"
      [] n = 2 -> "dialogue"
      [] n = 3 -> "pre_scene"
      [] n = 4 -> "scene_heading"
      [] n = 5 -> "transition"
      [] n = 7 -> "parenthetical"
      [] n = 8 -> dialogue_step(T, T.of_line[line].strip, T.of_line[line].leading_spaces,
                                position, lns, st.last_element).element.type
      [] OTHER -> "action"

\* the first rule from the n-th on whose condition holds
RECURSIVE FirstRuleFrom(_, _, _, _, _, _)
FirstRuleFrom(T, n, line, position, lns, st) ==
    IF RuleHolds(T, n, line, position, lns, st) THEN n
    ELSE FirstRuleFrom(T, n + 1, line, position, lns, st)

FirstRule(T, line, position, lns, st) == FirstRuleFrom(T, 1, line, position, lns, st)

\* C7: on the line the loop is at and in every ClassifierState, the type
\* classify_line returns is the type of the first rule whose condition holds,
\* in the order continuation cue, hyphenated continuation, pre-scene marker,
\* scene heading, transition, character name, parenthetical, dialogue step,
\* default action.  Of the lines classified so far, one that is a pre-scene
\* marker and a scene heading (and takes no earlier rule) is pre_scene, and
\* one that is a hyphenated continuation and a scene heading (and no
\* continuation cue) is dialogue.
C7_FirstRuleWins ==
    \A T \in {Tables} :
        /\ Classifiable(T) =>
              LET clean == T.of_line[raw_line].clean_line
                  \* the first of the rules that do not read the ClassifierState
                  stateless == FirstRule(T, clean, i, lines, NewClassifier)
              IN \A st \in ClassifierStates :
                     LET first == IF stateless <= 6 THEN stateless
                                  ELSE FirstRuleFrom(T, 7, clean, i, lines, st)
                     IN classified_in(T, st).element.type =
                            RuleType(T, first, clean, i, lines, st)
        /\ \A k \in 1..Len(calls) :
              LET line == T.of_line[calls[k].line].clean_line
                  lns == pages_data[calls[k].element.page]
                  holds(n) == RuleHolds(T, n, line, calls[k].position, lns, calls[k].before)
                  cue == holds(1)
                  hyphenated == holds(2)
                  heading == holds(4)
              IN /\ holds(3) /\ heading /\ ~cue /\ ~hyphenated =>
                        calls[k].element.type = "pre_scene"
                 /\ hyphenated /\ heading /\ ~cue => calls[k].element.type = "dialogue"

\* one document had a line that is a pre-scene marker and a scene heading,
\* emitted as pre_scene, and a line that is a hyphenated continuation and a
\* scene heading, emitted as dialogue
C7_Witness ==
    \E j, k \in 1..Len(calls) :
        /\ calls[j].rule = "pre_scene"
        /\ Tables.of_text[TrimmedOf(j)].is_scene_heading
        /\ calls[k].rule = "hyphenated_continuation"
        /\ Tables.of_text[TrimmedOf(k)].is_scene_heading

\* C8 as stated: in an open dialogue block (in_dialogue_block true,
\* last_element character or dialogue) the line "I can't believe this is
\* happening." is dialogue and leaves the block open, and the line "Dan
\* Bilzerian jet skis across the water." classified right after it is action
\* and closes the block.
C8_CelebrityLines ==
    \A k \in 1..Len(calls) :
        /\ calls[k].before.in_dialogue_block
        /\ calls[k].before.last_element \in {"character", "dialogue"}
        /\ calls[k].element.text = "I can't believe this is happening."
        => /\ calls[k].element.type = "dialogue"
           /\ calls[k].after.in_dialogue_block
           /\ k < Len(calls)
              /\ calls[k + 1].element.text = "Dan Bilzerian jet skis across the water."
              => /\ calls[k + 1].element.type = "action"
                 /\ ~calls[k + 1].after.in_dialogue_block

\* C9: the parse of the kitchen document is one scene; its heading contains
\* "INT. KITCHEN - DAY", its content has the action line at 12 leading
\* spaces, the character line at 38 and the dialogue line at 25, and its
\* character set is {"JOHN"}.
C9_KitchenScene ==
    pc = "done" /\ pages_data = KitchenDoc =>
        /\ Len(scenes) = 1
        /\ contains(scenes[1].heading, "INT. KITCHEN - DAY")
        /\ spaces(12) \o "John opens the fridge." \in Range(split_lines(scenes[1].content))
        /\ spaces(38) \o "JOHN" \in Range(split_lines(scenes[1].content))
        /\ spaces(25) \o "There's nothing left." \in Range(split_lines(scenes[1].content))
        /\ scenes[1].characters = {"JOHN"}

\* the kitchen document has been parsed
C9_Witness ==
    /\ pc = "done"
    /\ pages_data = KitchenDoc
    /\ scenes # << >>
    /\ Len(emitted) = 4

\* a line that holds a page number and nothing else: one to four digits, then
\* at most two dots
IsPageNumberOnly(line) ==
    LET t == strip(line)
        e == RunEnd(t, 1, D09)
    IN 2 <= e /\ e <= 5 /\ SubSeq(t, e, Len(t)) \in {"", ".", ".."}

PageNumberLines == {l \in RawLines : IsPageNumberOnly(l)}

\* the page-number lines of the document
PageNumbersOfDocument ==
    {l \in PageNumberLines : \E pg \in 1..Len(pages_data) : l \in Range(pages_data[pg])}

\* C10: no call of classify_line is made on a line that holds only a page
\* number: every call is made on a line of the document, in page-then-line
\* order, and none of these lines is a page number, so that no Element comes
\* of one; the ClassifierState changes in the calls only (each call starts in
\* the state the call before left, and the parser is in the state the last
\* call left), so that a page-number line leaves it unchanged; and in the
\* output the text of a page-number line of the document is nowhere in the
\* content of a scene.
C10_PageNumbersDropped ==
    /\ \A k \in 1..Len(calls) :
          /\ calls[k].line = line_at(pages_data[calls[k].element.page], calls[k].position)
          /\ calls[k].line \notin PageNumberLines
          /\ k < Len(calls) =>
                /\ calls[k + 1].before = calls[k].after
                /\ \/ calls[k].element.page < calls[k + 1].element.page
                   \/ /\ calls[k].element.page = calls[k + 1].element.page
                      /\ calls[k].position < calls[k + 1].position
    /\ classifier = (IF calls = << >> THEN NewClassifier ELSE calls[Len(calls)].after)
    /\ pc = "done" =>
          \A k \in 1..Len(scenes) : \A l \in PageNumbersOfDocument :
              ~contains(scenes[k].content, strip(l))

\* the loop has just passed a page-number line inside an open dialogue block
C10_Witness ==
    /\ pc = "parsing"
    /\ page_num <= Len(pages_data)
    /\ i >= 1
    /\ i <= Len(pages_data[page_num])
    /\ pages_data[page_num][i] \in PageNumberLines
    /\ classifier.in_dialogue_block

(***************************************************************************)
(* Properties of artifact repair.                                          *)
(***************************************************************************)
\* C11: artifact repair is idempotent: on every line the loop comes to,
\* _clean_extraction_artifacts applied to the cleaned line gives the cleaned
\* line again.
C11_CleanIdempotent ==
    \A T \in {Tables} :
        AtLine =>
            T.of_line[T.of_line[raw_line].clean_line].clean_line = T.of_line[raw_line].clean_line

(***************************************************************************)
(* Properties of the ClassifierState across calls of the parser.           *)
(***************************************************************************)
\* the calls cs of classify_line saw only the ClassifierState of their own
\* parse: the first began from a new classifier, every other from the state
\* the one before it left
own_states(cs) ==
    /\ cs # << >> => cs[1].before = NewClassifier
    /\ \A k \in 1..(Len(cs) - 1) : cs[k + 1].before = cs[k].after

\* C12: with two requests served at the same time, no line of one document
\* is classified in a ClassifierState that the parse of the other document
\* created or wrote: each parse, running, suspended or returned, has seen only
\* its own states.
C12_ClassifierStatePrivate ==
    /\ own_states(calls)
    /\ own_states(suspended.calls)
    /\ \A n \in 1..Len(completed) : own_states(completed[n].calls)

\* C13: every call of _parse_sequential_content starts from a new
\* ClassifierState: until its first line is classified the classifier is the
\* new one, every classified line begins from the state its own parse left,
\* and a document parsed after other documents on the same parser gives the
\* Elements and the scenes it gave before, the first parse of the history
\* being the one on the new parser.
C13_FreshStatePerParse ==
    /\ pc = "parsing" /\ calls = << >> => classifier = NewClassifier
    /\ own_states(calls)
    /\ \A m, n \in 1..Len(completed) :
          completed[m].pages_data = completed[n].pages_data =>
              /\ completed[m].calls = completed[n].calls
              /\ completed[m].scenes = completed[n].scenes

\* the page that begins in a speech was parsed on the new parser and again
\* after a document that left the dialogue block open
C13_Witness ==
    /\ Len(completed) = 3
    /\ completed[1].pages_data = MidSpeechDoc
    /\ completed[2].pages_data = PageTurnDoc
    /\ completed[2].calls[Len(completed[2].calls)].after.in_dialogue_block
    /\ completed[3].pages_data = MidSpeechDoc
    /\ completed[3].calls[1].element.type = "action"

(***************************************************************************)
(* Properties of the Elements and of the ClassifierState after a call.     *)
(***************************************************************************)
\* the indentation the Elements of a type are given
indent_of_type(type) ==
    CASE type = "character" -> 38
      [] type = "dialogue" -> 25
      [] type = "parenthetical" -> 30
      [] type \in {"action", "scene_heading"} -> 12
      [] type = "transition" -> 55
      [] type = "pre_scene" -> 0

in_dialogue_step(k) ==
    /\ calls[k].before.in_dialogue_block
    /\ calls[k].before.last_element \in {"character", "parenthetical", "dialogue"}
    /\ calls[k].rule \in DialogueStepRules \cup {"default_action"}

\* C15: a line that comes to the dialogue step and is not classified
\* dialogue is emitted as action and leaves in_dialogue_block false, whether
\* last_element was character, parenthetical or dialogue.
C15_NonDialogueEndsBlock ==
    \A k \in 1..Len(calls) :
        in_dialogue_step(k) /\ calls[k].element.type # "dialogue" =>
            /\ calls[k].element.type = "action"
            /\ ~calls[k].after.in_dialogue_block

\* the leading white space of the line of calls[k] as the classifier received it
LeadingOf(k) == Tables.of_line[Tables.of_line[calls[k].line].clean_line].leading_spaces

\* one of the action checks of the dialogue step flags the text
action_override(text) ==
    \/ Tables.of_text[text].contains_action_indicators
    \/ Tables.of_text[text].is_clearly_action[TRUE]
    \/ Tables.of_text[text].is_basic_action_line
    \/ Tables.of_text[text].contains_definitive_action_patterns
    \/ Tables.of_text[text].is_scene_element

\* C16: a line that comes to the dialogue step with 18 to 35 leading spaces,
\* that no action check flags and for which the score of _is_likely_dialogue
\* decides nothing, is classified dialogue, whether last_element was
\* character, parenthetical or dialogue.
C16_BandContinuesDialogue ==
    \A k \in 1..Len(calls) :
        /\ in_dialogue_step(k)
        /\ 18 <= LeadingOf(k) /\ LeadingOf(k) <= 35
        /\ ~action_override(TrimmedOf(k))
        /\ ~is_likely_dialogue(Tables, TrimmedOf(k), LeadingOf(k), calls[k].before.last_element)
        => calls[k].element.type = "dialogue"

(***************************************************************************)
(* Properties of the dialogue step.                                        *)
(***************************************************************************)
\* one of the action checks made before the continuation check flags the text
action_signal(text) ==
    \/ Tables.of_text[text].contains_action_indicators
    \/ Tables.of_text[text].is_clearly_action[TRUE]
    \/ Tables.of_text[text].is_basic_action_line

\* calls[j] is a character-CONT'D cue and calls[k] a later line of its speech:
\* the lines from the cue to calls[k] follow one another on one page, those
\* between the two were classified dialogue, and calls[k] comes to the
\* dialogue step with no action signal
in_speech_of_cue(j, k) ==
    /\ j < k
    /\ calls[j].element.type = "character"
    /\ Tables.of_text[Tables.of_line[calls[j].line].strip].is_continuation_character_name
    /\ \A m \in j..(k - 1) :
          /\ calls[m + 1].element.page = calls[m].element.page
          /\ calls[m + 1].position = calls[m].position + 1
    /\ \A m \in (j + 1)..(k - 1) : calls[m].element.type = "dialogue"
    /\ in_dialogue_step(k)
    /\ ~action_signal(TrimmedOf(k))

\* C17 as stated: after a character-CONT'D cue every following line of the
\* speech that carries no action signal is classified dialogue, whatever its
\* indentation and however many lines the speech has.
C17_ContdSpeechUnbounded ==
    \A j, k \in 1..Len(calls) :
        in_speech_of_cue(j, k) => calls[k].element.type = "dialogue"

\* C17: after a character-CONT'D cue a following line of the speech that
\* carries no action signal is classified dialogue whatever its indentation
\* as long as the cue is one of the five lines before it and no line between
\* them is empty, a scene heading, a character name or definitive action;
\* a line of the speech further than five lines from the cue is dialogue
\* only when it passes the likelihood test or has 18 to 35 leading spaces.
C17_ContdSpeechWindow ==
    \A j, k \in 1..Len(calls) :
        in_speech_of_cue(j, k)
        /\ block_unbroken(Tables, calls[j].position, calls[k].position,
                          pages_data[calls[k].element.page])
        => LET text == TrimmedOf(k)
               likely == /\ ~Tables.of_text[text].is_scene_element
                         /\ is_likely_dialogue(Tables, text, LeadingOf(k),
                                               calls[k].before.last_element)
               in_band == 18 <= LeadingOf(k) /\ LeadingOf(k) <= 35
           IN IF calls[k].position - calls[j].position <= 5
              THEN calls[k].element.type = "dialogue"
              ELSE calls[k].element.type = "dialogue" <=> likely \/ in_band

\* in one speech at the left margin, the line five lines after the cue was
\* classified dialogue and the line six lines after it action
C17_Witness ==
    \E j, k \in 1..(Len(calls) - 1) :
        /\ in_speech_of_cue(j, k) /\ in_speech_of_cue(j, k + 1)
        /\ LeadingOf(k) = 0 /\ LeadingOf(k + 1) = 0
        /\ calls[k].position - calls[j].position = 5
        /\ calls[k].rule = "contd_block_dialogue"
        /\ calls[k + 1].rule = "unindented_action"

\* C18: in an open dialogue block a line that no action check flags and whose
\* dialogue score is above the high threshold of 0.85 is classified dialogue,
\* whatever its indentation.
C18_HighScoreIsDialogue ==
    \A k \in 1..Len(calls) :
        /\ in_dialogue_step(k)
        /\ ~action_override(TrimmedOf(k))
        /\ Tables.of_text[TrimmedOf(k)].dialogue_score > 85
        => calls[k].element.type = "dialogue"

(***************************************************************************)
(* Properties of the ClassifierState after a call.                         *)
(***************************************************************************)
SceneMarkerTypes == {"pre_scene", "scene_heading", "transition"}

\* C19: a call of classify_line that returns a pre_scene, scene_heading or
\* transition Element leaves in_dialogue_block false; on the line the loop is
\* at this is so in every ClassifierState, not only in the one the parser is
\* in.
C19_SceneMarkerClosesBlock ==
    /\ \A k \in 1..Len(calls) :
          calls[k].element.type \in SceneMarkerTypes =>
              /\ calls[k].rule = calls[k].element.type
              /\ ~calls[k].after.in_dialogue_block
    /\ \A T \in {Tables} :
          Classifiable(T) =>
              \A st \in ClassifierStates :
                  LET returned == classified_in(T, st)
                  IN returned.element.type \in SceneMarkerTypes => ~returned.in_dialogue_block

\* each of the three types has been returned by a call made with the dialogue
\* block open
C19_Witness ==
    \A type \in SceneMarkerTypes :
        \E k \in 1..Len(calls) :
            /\ calls[k].element.type = type
            /\ calls[k].before.in_dialogue_block
            /\ ~calls[k].after.in_dialogue_block

\* C20: every call of classify_line leaves last_element at the type of the
\* Element it returned, on the line the loop is at in every ClassifierState;
\* nothing else changes last_element: it is None until the first call, each
\* call finds the value the call before it left, whatever lines were skipped
\* between the two, and the parser holds the value the last call left.
C20_LastElementIsReturnedType ==
    /\ \A k \in 1..Len(calls) :
          calls[k].after.last_element = calls[k].element.type
    /\ \A T \in {Tables} :
          Classifiable(T) =>
              \A st \in ClassifierStates :
                  LET returned == classified_in(T, st)
                  IN returned.last_element = returned.element.type
    /\ IF calls = << >>
       THEN classifier.last_element = "None"
       ELSE /\ calls[1].before.last_element = "None"
            /\ classifier.last_element = calls[Len(calls)].after.last_element
    /\ \A k \in 1..(Len(calls) - 1) :
          calls[k + 1].before.last_element = calls[k].after.last_element

\* the parse is over, all seven types were returned, and between a character
\* cue and the call after it a blank line and a page number were skipped, the
\* second call finding last_element as the cue left it
C20_Witness ==
    /\ pc = "done"
    /\ {calls[k].element.type : k \in 1..Len(calls)} = ElementTypes
    /\ \E k \in 1..(Len(calls) - 1) :
          /\ calls[k + 1].element.page = calls[k].element.page
          /\ calls[k + 1].position = calls[k].position + 3
          /\ {line_at(pages_data[calls[k].element.page], calls[k].position + n) : n \in 1..2}
                 = {"", "42."}
          /\ calls[k].after.last_element = "character"
          /\ calls[k + 1].before.last_element = "character"

(***************************************************************************)
(* The classifier driven directly, as the tests drive it: the fields of    *)
(* the ClassifierState are set, then classify_line is called on one line   *)
(* of a page.                                                              *)
(***************************************************************************)
\* the non-empty pages of the scenario documents
ProbePages ==
    {pg \in UNION {{d[n] : n \in 1..Len(d)} : d \in ScenarioDocuments} : pg # << >>}

\* classifier.in_dialogue_block = ...; classifier.last_element = ...;
\* classifier.classify_line(lines[position], position, lines)
Probe ==
    /\ pc = "idle"
    /\ \E T \in {Tables} : \E page \in ProbePages : \E position \in 0..(Len(page) - 1) :
       \E st \in ClassifierStates :
          LET r == classify_line(T, line_at(page, position), position, page, st)
          IN /\ pc' = "probe"
             /\ pages_data' = <<page>>
             /\ page_num' = 1
             /\ i' = position
             /\ classifier' = [last_element |-> r.last_element,
                               in_dialogue_block |-> r.in_dialogue_block]
             /\ calls' = <<[line |-> line_at(page, position), position |-> position,
                            before |-> st, rule |-> r.rule,
                            element |-> [type |-> r.element.type, text |-> r.element.text,
                                         indent |-> r.element.indent, page |-> 1],
                            after |-> classifier']>>
             /\ UNCHANGED <<scenes, current_scene_heading, current_scene_elements,
                            scene_characters, current_scene_page, scene_parts, open_heading,
                            suspended, completed>>

ProbeSpec == Init /\ [][Probe]_vars

\* page with the line at index j replaced by a line of the vocabulary
Replaced(page, j, v) == [page EXCEPT ![j + 1] = Vocabulary[v]]

\* the Element of the probed call on the page changed at index j
ElementOn(page) ==
    classify_line(Tables, calls[1].line, calls[1].position, page, calls[1].before).element

Probed == pc = "probe"

\* C21 as stated: the Element of line n is the same on every page that
\* agrees with the probed page on the lines n-2 to n+1, classified from the
\* same ClassifierState.
C21_WindowOfFourLines ==
    Probed =>
        \A j \in 0..(Len(pages_data[1]) - 1) : \A v \in 1..Len(Vocabulary) :
            (j < calls[1].position - 2 \/ j > calls[1].position + 1) =>
                ElementOn(Replaced(pages_data[1], j, v)).type = calls[1].element.type

\* C21: the Element of line n is a function of the incoming ClassifierState
\* and of the lines n-5 to n of the page: it is the same on every page that
\* agrees with the probed page on those lines, whatever stands at line n-6 or
\* earlier and at line n+1 or later.
C21_WindowOfFiveLinesBack ==
    Probed =>
        \A j \in 0..(Len(pages_data[1]) - 1) : \A v \in 1..Len(Vocabulary) :
            (j < calls[1].position - 5 \/ j > calls[1].position) =>
                ElementOn(Replaced(pages_data[1], j, v))
                    = [type |-> calls[1].element.type, text |-> calls[1].element.text,
                       indent |-> calls[1].element.indent]

\* a line six lines after a continued cue was classified action at the left
\* margin: the cue is out of sight, since the same cue five lines before the
\* line makes it dialogue, and no line in the place of the cue changes the
\* Element
C21_Witness ==
    /\ Probed
    /\ calls[1].position >= 6
    /\ calls[1].rule = "unindented_action"
    /\ Tables.of_text[Tables.of_line[line_at(pages_data[1], calls[1].position - 6)].strip]
          .is_continuation_character_name
    /\ \E v \in 1..Len(Vocabulary) :
          ElementOn(Replaced(pages_data[1], calls[1].position - 5, v)).type = "dialogue"
    /\ \A v \in 1..Len(Vocabulary) :
          ElementOn(Replaced(pages_data[1], calls[1].position - 6, v)).type = "action"

(***************************************************************************)
(* Properties of the stream of Elements of a document.                     *)
(***************************************************************************)
\* C22: a pre_scene Element is emitted only before the first scene_heading
\* Element of the document, and never by a call made with the dialogue block
\* open.
C22_PreSceneOnlyAtOpening ==
    \A k \in 1..Len(calls) :
        calls[k].element.type = "pre_scene" =>
            /\ \A j \in 1..(k - 1) : calls[j].element.type # "scene_heading"
            /\ ~calls[k].before.in_dialogue_block

(***************************************************************************)
(* Properties of format_screenplay_content.                                *)
(***************************************************************************)
\* the lines format_screenplay_content makes of one Element that opens the
\* content
LinesOf(element) == element_lines(Tables.of_text, element, "", "")

\* C23: every line format_screenplay_content renders for an Element has as
\* many leading spaces as the indent of the Element: character 38, each
\* wrapped line of dialogue 25, parenthetical 30, action 12, transition 55,
\* pre_scene 0.
C23_RenderedAtIndent ==
    \A k \in 1..Len(scene_parts) : \A n \in 1..Len(scene_parts[k].elements) :
        LET element == scene_parts[k].elements[n]
        IN \A m \in 1..Len(LinesOf(element)) :
              LinesOf(element)[m] # "" =>
                  leading_spaces_of(LinesOf(element)[m]) = element.indent

RECURSIVE LeadingBlanks(_)
\* the number of empty lines ls begins with
LeadingBlanks(ls) ==
    IF ls = << >> \/ Head(ls) # "" THEN 0 ELSE 1 + LeadingBlanks(Tail(ls))

RECURSIVE TrailingBlanks(_)
\* the number of empty lines ls ends with
TrailingBlanks(ls) ==
    IF ls = << >> \/ ls[Len(ls)] # "" THEN 0
    ELSE 1 + TrailingBlanks(SubSeq(ls, 1, Len(ls) - 1))

\* the number of empty lines between the rendered lines of the Elements first
\* and second, second following first in one call of format_screenplay_content
BlanksBetween(first, second) ==
    TrailingBlanks(LinesOf(first))
    + LeadingBlanks(element_lines(Tables.of_text, second, first.type,
                                  IF first.type = "action"
                                  THEN Tables.of_text[first.text].strip ELSE ""))

\* C24: between the rendered lines of two Elements that follow each other in
\* a scene there is exactly one empty line when the pair of their types is in
\* the spacing table; between two action Elements there is one when the
\* paragraph heuristic fires and none otherwise.
C24_OneBlankLinePerTablePair ==
    \A k \in 1..Len(scene_parts) : \A n \in 1..(Len(scene_parts[k].elements) - 1) :
        LET first == scene_parts[k].elements[n]
            second == scene_parts[k].elements[n + 1]
        IN /\ needs_spacing(first.type, second.type) => BlanksBetween(first, second) = 1
           /\ first.type = "action" /\ second.type = "action" =>
                 BlanksBetween(first, second) =
                     (IF is_new_action_paragraph(Tables.of_text[first.text].strip,
                                                 Tables.of_text[second.text].strip)
                      THEN 1 ELSE 0)

(***************************************************************************)
(* Properties of the pattern library as the classifier uses it.            *)
(***************************************************************************)
\* C25: a line whose text is in the exclusion set of the pattern library is
\* never classified character, whatever its indentation.
C25_ExcludedNeverCharacter ==
    \A k \in 1..Len(calls) :
        upper(TrimmedOf(k)) \in character_exclusions => calls[k].element.type # "character"

\* C26: is_scene_heading holds only of text in upper case: no line with a
\* lower-case letter is classified scene_heading, and none opens a scene.
C26_HeadingIsUpperCase ==
    /\ \A k \in 1..Len(calls) :
          calls[k].element.type = "scene_heading" => TrimmedOf(k) = upper(TrimmedOf(k))
    /\ \A k \in 1..Len(scene_parts) :
          scene_parts[k].heading.type # "none" =>
              scene_parts[k].heading.text = upper(scene_parts[k].heading.text)

\* C27: in the stream of Elements of a document every dialogue Element comes
\* directly after a character, parenthetical or dialogue Element, and no scene
\* begins with a dialogue Element.
C27_DialogueFollowsSpeech ==
    /\ \A k \in 1..Len(calls) :
          calls[k].element.type = "dialogue" =>
              /\ k > 1
              /\ calls[k - 1].element.type \in {"character", "parenthetical", "dialogue"}
    /\ \A k \in 1..Len(scene_parts) :
          scene_parts[k].elements # << >> => scene_parts[k].elements[1].type # "dialogue"

(***************************************************************************)
(* Properties of the Scene records.                                        *)
(***************************************************************************)
\* C28: every Scene of the output begins on a page that is not after the
\* page it ends on.
C28_PageStartBeforeEnd ==
    \A k \in 1..Len(scenes) : scenes[k].page_start <= scenes[k].page_end

(***************************************************************************)
(* ScreenplayParser._format_for_scriptorly: the character profiles built   *)
(* from the scenes _parse_sequential_content returned.                     *)
(***************************************************************************)
\* f"scene_{n:03d}", for n below 1000
scene_id(n) ==
    LET digit(d) == CharAt(DIGITS, d + 1)
    IN "scene_" \o digit((n \div 100) % 10) \o digit((n \div 10) % 10) \o digit(n % 10)

\* the scenes whose character set holds char, by their position in the output
scenes_with(scs, char) == {k \in 1..Len(scs) : char \in scs[k].characters}

\* scriptorly_characters after the loop over the scenes, its fields
\* appearances and scenes_present: one profile for each name; every scene that
\* holds the name adds one to appearances and appends the identifier made of
\* the length of scenes_present plus one
scriptorly_characters(scs) ==
    [char \in UNION {scs[k].characters : k \in 1..Len(scs)} |->
        LET present == scenes_with(scs, char)
        IN [appearances |-> Cardinality(present),
            scenes_present |-> [n \in 1..Cardinality(present) |-> scene_id(n)]]]

\* the positions of set S in increasing order
RECURSIVE Ascending(_)
Ascending(S) ==
    IF S = {} THEN << >>
    ELSE LET least == CHOOSE x \in S : \A y \in S : x <= y
         IN <<least>> \o Ascending(S \ {least})

\* C29: in the profile of every character appearances is the number of
\* scenes whose character set holds the name, and scenes_present lists, for
\* each of those scenes in order, the identifier of its position in the
\* output.
C29_ProfilesNameTheirScenes ==
    pc = "done" =>
        \A char \in DOMAIN scriptorly_characters(scenes) :
            LET profile == scriptorly_characters(scenes)[char]
                present == Ascending({k \in 1..Len(scenes) : char \in scenes[k].characters})
            IN /\ profile.appearances = Len(present)
               /\ profile.scenes_present = [n \in 1..Len(present) |-> scene_id(present[n])]

(***************************************************************************)
(* Properties of the lines the parser passes over.                         *)
(***************************************************************************)
\* the formats of a line that is a page number and nothing else: a number of
\* one to four digits with up to two periods, "Page N", "N/M", "- N -", "(N)"
page_number_formats ==
    << R_cat(<<R_bol, R_rep(R_d, 1, 4), R_rep(R_lit("."), 0, 2), R_eol>>),
       R_cat(<<R_bol, R_lit("Page"), R_plus(R_s), R_plus(R_d), R_eol>>),
       R_cat(<<R_bol, R_rep(R_d, 1, 4), R_lit("/"), R_rep(R_d, 1, 4), R_eol>>),
       R_cat(<<R_bol, R_lit("-"), R_star(R_s), R_plus(R_d), R_star(R_s), R_lit("-"), R_eol>>),
       R_cat(<<R_bol, R_lit("("), R_plus(R_d), R_lit(")"), R_eol>>) >>

\* line holds a page number and nothing else, as it stands or once the
\* artifacts of extraction are cleaned from it
IsPageNumberLine(line) ==
    \/ \E n \in 1..Len(page_number_formats) : re_match(page_number_formats[n], strip(line), TRUE)
    \/ strip(Tables.of_line[line].clean_line) = ""

\* C30: when the document has been read, every line that is not empty, not
\* white space and not a page number has one Element, and only those lines
\* have one.
C30_OnlyPageNumbersDropped ==
    pc = "done" =>
        \A pg \in 1..Len(pages_data) : \A idx \in 0..(Len(pages_data[pg]) - 1) :
            LET line == line_at(pages_data[pg], idx)
                made == {k \in 1..Len(calls) :
                            calls[k].element.page = pg /\ calls[k].position = idx}
            IN IF strip(line) = "" \/ IsPageNumberLine(line)
               THEN made = {}
               ELSE Cardinality(made) = 1

====
